---- MODULE Spec2Model ----
(***************************************************************************)
(* A model of the drone ssh runner's execution core: the engine            *)
(* (Setup / Run / Destroy over ssh and sftp) and the compiler front end    *)
(* (lint, Compile).  The remote host is the environment: every remote call *)
(* completes with success or failure, the context may be cancelled at any  *)
(* time, and the remote command of a step ends with an outcome of its own. *)
(***************************************************************************)
EXTENDS Integers, Sequences, FiniteSets, TLC

(***************************************************************************)
(* Bounds of the model.                                                    *)
(***************************************************************************)
MaxFiles == 3
MaxStepFiles == 2
MaxExitStatus == 2
MaxSteps == 3
MaxGlobals == 2
MaxSecrets == 2
MaxPings == 4
MaxProcsLimit == 2

(***************************************************************************)
(* Program constants.                                                      *)
(***************************************************************************)
RootMode == 511
DirMode == 448
FileMode == 384
ScriptMode == 448
TransportExitCode == 255

VARIABLES
    os,         \* spec.Platform.OS
    files,      \* spec.Files
    stepFiles,  \* step.Files of the step handed to Run
    op,         \* the engine operation in progress
    pc,         \* where that operation stands
    phase,      \* Setup: which of its three parts is running
    idx,        \* index of the file the current loop is at
    open,       \* resources that are open (client, sftp, session, file)
    deferred,   \* the operation's deferred closes, in the order deferred
    remote,     \* the remote calls completed so far, in order
    logs,       \* the entries the operation wrote to the logger
    ret,        \* what the operation returned
    cancelled,  \* ctx.Done() is closed
    cancelAt,   \* where the operation stood when the context was cancelled
    finishedFirst, \* session.Run had returned when the context was cancelled
    node,       \* the executor's node of the step Run is called for
    gor,        \* the goroutine Run starts around session.Run: none, runnable,
                \* running (in session.Run), send (at done <-), exited
    gres,       \* what session.Run returned inside that goroutine
    pipeline,   \* the pipeline handed to parse / Compile
    cpc,        \* where the compiler front end stands
    lintErr,    \* what lint returned
    compiled,   \* the Spec returned by Compile (its steps)
    args,       \* the compiler arguments besides the pipeline
    providers,  \* the answers of the environment and secret providers
    specServer, \* the Spec returned by Compile (its server)
    specFiles,  \* the Spec returned by Compile (its files)
    resource,   \* the raw resource handed to parse
    parsed,     \* what parse returned
    step,       \* the step whose scripts Run writes
    buf,        \* the buffer Run writes the script of a file to
    fidx,       \* index of the step file Run's loop is at
    spc,        \* where that loop stands
    uploads,    \* the path and bytes Run handed to upload, in order
    dpc,        \* where the daemon stands
    ctxDone,    \* the daemon's context is cancelled
    pingErr,    \* the last Ping returned an error
    pings,      \* how many times the daemon called Ping
    pinged,     \* some Ping returned without error
    poller,     \* the goroutine around poller.Poll
    server,     \* the goroutine around server.ListenAndServe
    dlogs,      \* what the daemon logged
    handler,    \* where the signal handler stands
    rpc,        \* where the runner stands with its stage
    plan,       \* the steps of the stage's Spec: depends_on and run policy
    maxProcs,   \* the limit the Execer was made with
    nodes,      \* the executor's node of every step: state and result
    setupOk,    \* Engine.Setup returned without error
    destroys,   \* how many times the runner called Engine.Destroy
    stopped     \* the stage was cancelled

evars == <<os, files, stepFiles, op, pc, phase, idx, open, deferred, remote,
           logs, ret, cancelled, cancelAt, finishedFirst, gor, gres, node>>
cvars == <<pipeline, cpc, lintErr, compiled, args, providers, specServer,
           specFiles, resource, parsed>>
svars == <<step, buf, fidx, spc, uploads>>
dvars ==
    <<dpc, ctxDone, pingErr, pings, pinged, poller, server, dlogs, handler>>
xvars == <<rpc, plan, maxProcs, nodes, setupOk, destroys, stopped>>
vars == <<evars, cvars, svars, dvars, xvars>>

(***************************************************************************)
(* Values.                                                                 *)
(***************************************************************************)
Root == "root"
PathNames == <<"f1", "f2", "f3", "f4", "f5">>
ScriptNames == <<"s1", "s2", "s3", "s4">>

NoErr == [kind |-> "nil", status |-> 0]
Err(k) == [kind |-> k, status |-> 0]
ExitError(n) == [kind |-> "exit", status |-> n]
Canceled == [kind |-> "canceled", status |-> 0]

NoState == [present |-> FALSE, ExitCode |-> 0, Exited |-> FALSE, OOMKilled |-> FALSE]
NoRet == [returned |-> FALSE, state |-> NoState, err |-> NoErr]

\* One entry of spec.Files (or of step.Files).
File(p, d, m) == [Path |-> p, IsDir |-> d, Mode |-> m]

FileLists ==
    UNION { { [i \in 1..n |-> File(PathNames[i], f[i], IF f[i] THEN DirMode ELSE FileMode)] :
              f \in [1..n -> BOOLEAN] } : n \in 0..MaxFiles }

StepFileLists ==
    { [i \in 1..n |-> File(ScriptNames[i], FALSE, ScriptMode)] : n \in 0..MaxStepFiles }

\* One completed remote call: which call, on which path, with which mode, with
\* which command line, and whether it succeeded.
Call(c, p, m, ok) == [call |-> c, path |-> p, mode |-> m, cmd |-> <<>>, ok |-> ok]
CmdCall(c, line, ok) == [call |-> c, path |-> "", mode |-> 0, cmd |-> line, ok |-> ok]

\* The outcomes of session.Run: nil, an *ssh.ExitError, or any other error.
ExitStatuses == 0..MaxExitStatus
SessionOutcomes == {NoErr, Err("other")} \cup {ExitError(n) : n \in ExitStatuses}

Range(s) == {s[i] : i \in DOMAIN s}

(***************************************************************************)
(* Helpers of the engine.                                                  *)
(***************************************************************************)

\* DeferClose with the session's close forgotten.
DeferCloseForgetsSession(d, r) == IF r = "session" THEN d ELSE Append(d, r)

\* defer r.Close()
DeferClose(d, r) == Append(d, r)

\* The deferred closes run when the function returns.
RunDefers(o, d) == o \ Range(d)

\* removeCommand(os, path)
removeCommand(o, path) ==
    IF o = "windows"
    THEN <<"powershell -noprofile -noninteractive -command \"Remove-Item", path,
           "-Recurse -Force\"">>
    ELSE <<"rm -rf", path>>

\* StateOf without the 255 of an error that carries no exit status.
StateOfMisses255(err) ==
    [present |-> TRUE, ExitCode |-> IF err.kind = "exit" THEN err.status ELSE 0,
     Exited |-> TRUE, OOMKilled |-> FALSE]

\* StateOf without the override by the exit status of an *ssh.ExitError.
StateOfIgnoresExitStatus(err) ==
    [present |-> TRUE, ExitCode |-> IF err # NoErr THEN TransportExitCode ELSE 0,
     Exited |-> TRUE, OOMKilled |-> FALSE]

\* The State Run builds from the error session.Run returned.
StateOf(err) ==
    LET c0 == 0
        c1 == IF err # NoErr THEN TransportExitCode ELSE c0
        c2 == IF err.kind = "exit" THEN err.status ELSE c1
    IN  [present |-> TRUE, ExitCode |-> c2, Exited |-> TRUE, OOMKilled |-> FALSE]

\* The index of the next entry of fs after i whose IsDir is d (Len(fs)+1: none):
\* the loops of Setup skip the other entries with continue.
NextEntry(fs, i, d) ==
    LET S == {j \in (i+1)..Len(fs) : fs[j].IsDir = d}
    IN  IF S = {} THEN Len(fs) + 1
        ELSE CHOOSE j \in S : \A k \in S : j <= k

\* SetupNext as a single pass over spec.Files in list order, each entry
\* created or uploaded as it comes.
SetupNextInListOrder(ph, i) ==
    LET j == IF ph = "root" THEN 1 ELSE i + 1
    IN  IF j > Len(files) THEN [phase |-> "files", idx |-> j, pc |-> "return"]
        ELSE IF files[j].IsDir THEN [phase |-> "dirs", idx |-> j, pc |-> "mkdirall"]
        ELSE [phase |-> "files", idx |-> j, pc |-> "create"]

\* Where Setup goes once the element at (ph, i) is done.
SetupNext(ph, i) ==
    LET d == NextEntry(files, IF ph = "root" THEN 0 ELSE i, TRUE)
        f == NextEntry(files, IF ph = "files" THEN i ELSE 0, FALSE)
    IN  IF ph \in {"root", "dirs"} /\ d <= Len(files)
        THEN [phase |-> "dirs", idx |-> d, pc |-> "mkdirall"]
        ELSE IF f <= Len(files)
        THEN [phase |-> "files", idx |-> f, pc |-> "create"]
        ELSE [phase |-> "files", idx |-> f, pc |-> "return"]

\* The directory mkdir is working on, and its mode.
CurPath == IF phase = "root" THEN Root ELSE files[idx].Path
CurMode == IF phase = "root" THEN RootMode ELSE files[idx].Mode

\* The file upload is working on.
CurFile == IF op = "Run" THEN stepFiles[idx] ELSE files[idx]

\* return: the result is handed back and the deferred closes run.
Return(state, err) ==
    /\ pc' = "returned"
    /\ ret' = [returned |-> TRUE, state |-> state, err |-> err]
    /\ open' = RunDefers(open, deferred)
    /\ deferred' = <<>>

Logged(level, msg) == Append(logs, [level |-> level, msg |-> msg])

(***************************************************************************)
(* Initial state: a Spec and a step, no operation in progress.             *)
(***************************************************************************)
\* A Secretable of the pipeline: a literal value, a secret name, or neither.
Variable(v, sec) == [Value |-> v, Secret |-> sec]
Unset == Variable("", "")

\* A map[string]string with no entry.
NoEnvs == [k \in {} |-> ""]

\* What the secret provider answers for a name: the secret, nothing (nil,
\* nil), or an error (nil, err).
Found(data) == [kind |-> "found", Data |-> data]
Missing == [kind |-> "missing", Data |-> ""]
ProviderError == [kind |-> "error", Data |-> ""]

SecretNames == {"host_secret", "username", "ssh_key", "tok", "CI", "TOKEN"}

\* A secret provider that knows no secret.
NoSecrets == [n \in SecretNames |-> Missing]

\* A global variable of the environment provider.
Global(name, data, mask) == [Name |-> name, Data |-> data, Mask |-> mask]

NoProviders == [Globals |-> <<>>, Secrets |-> NoSecrets]

\* args.Netrc: a nil pointer, or the machine, login and password it holds.
Netrc(machine, login, password) ==
    [Nil |-> FALSE, Machine |-> machine, Login |-> login, Password |-> password]

NoNetrc == [Nil |-> TRUE, Machine |-> "", Login |-> "", Password |-> ""]

\* The compiler arguments the model follows: the build parameters, the
\* variables environ.Proxy .. clone.Environ derive from the build metadata,
\* and the netrc.
NoArgs == [Params |-> NoEnvs, Metadata |-> NoEnvs, Netrc |-> NoNetrc]

\* A raw resource of the manifest: its kind, its type, and whether its data
\* is YAML that yaml.Unmarshal accepts (the variable pipeline is then what
\* the data unmarshals to).
RawResource(kind, type, wellFormed) ==
    [Kind |-> kind, Type |-> type, WellFormed |-> wellFormed]

\* The kind and type of the pipelines of this runner.
Kind == "pipeline"
Type == "ssh"

\* What parse returns: whether the resource is non-nil, the flag, the error.
ParseResult(out, ok, err) == [out |-> out, ok |-> ok, err |-> err]
NotParsed == ParseResult(FALSE, FALSE, "")

\* The server of a Spec that was not compiled yet.
NoServer == [Hostname |-> <<>>, Username |-> "", Password |-> "", SSHKey |-> ""]

EngineIdle ==
    /\ op = "none" /\ pc = "idle" /\ phase = "root" /\ idx = 0
    /\ open = {} /\ deferred = <<>> /\ remote = <<>> /\ logs = <<>>
    /\ ret = NoRet /\ cancelled = FALSE /\ cancelAt = "none"
    /\ finishedFirst = FALSE
    /\ gor = "none" /\ gres = NoErr
    /\ node = [state |-> "pending", result |-> "none", exit_code |-> 0]

\* A step with nothing to write.
NoStep == [WorkingDir |-> "", Secrets |-> <<>>, Envs |-> NoEnvs, Files |-> <<>>]

ScriptIdle ==
    /\ step = NoStep /\ buf = <<>> /\ fidx = 0 /\ spc = "off" /\ uploads = <<>>

CompilerIdle ==
    /\ pipeline = [Server |-> [Host |-> Unset, User |-> Unset, Password |-> Unset,
                               SSHKey |-> Unset],
                   Platform |-> [OS |-> ""],
                   Clone |-> [Disable |-> FALSE], Steps |-> <<>>]
    /\ cpc = "off" /\ lintErr = "" /\ compiled = <<>>
    /\ args = NoArgs /\ providers = NoProviders /\ specServer = NoServer
    /\ specFiles = <<>>
    /\ resource = RawResource(Kind, Type, TRUE) /\ parsed = NotParsed

\* The daemon before its command runs.
DaemonIdle ==
    /\ dpc = "off" /\ ctxDone = FALSE /\ pingErr = FALSE /\ pings = 0
    /\ pinged = FALSE /\ poller = "none" /\ server = "none" /\ dlogs = <<>>
    /\ handler = "armed"

\* The runner without a stage.
StageIdle ==
    /\ rpc = "off" /\ plan = <<>> /\ maxProcs = 0 /\ nodes = <<>>
    /\ setupOk = FALSE /\ destroys = 0 /\ stopped = FALSE

Init ==
    /\ os \in {"linux", "windows"}
    /\ files \in FileLists
    /\ stepFiles \in StepFileLists
    /\ EngineIdle
    /\ CompilerIdle
    /\ ScriptIdle
    /\ DaemonIdle
    /\ StageIdle

(***************************************************************************)
(* The caller starts an operation with a fresh context.                    *)
(***************************************************************************)
Start(o) ==
    /\ pc \in {"idle", "returned"} /\ node.state # "running"
    /\ op' = o /\ pc' = "dial" /\ phase' = "root" /\ idx' = 0
    /\ open' = {} /\ deferred' = <<>> /\ remote' = <<>> /\ logs' = <<>>
    /\ ret' = NoRet /\ cancelled' = FALSE /\ cancelAt' = "none"
    /\ finishedFirst' = FALSE
    /\ gor' = "none" /\ gres' = NoErr
    /\ node' = [state |-> IF o = "Run" THEN "running" ELSE "pending",
                result |-> "none", exit_code |-> 0]
    /\ UNCHANGED <<os, files, stepFiles, cvars, svars, dvars, xvars>>

StartSetup == Start("Setup")
StartRun == Start("Run")
StartDestroy == Start("Destroy")

\* The context is cancelled while the operation is in progress.  A Run parked
\* in its select is woken by ctx.Done(); nothing else in the engine reads the
\* context for anything but its logger.
Cancel ==
    /\ pc \notin {"idle", "returned"}
    /\ ~cancelled
    /\ cancelled' = TRUE
    /\ cancelAt' = pc
    /\ finishedFirst' = (gor = "send")
    /\ pc' = IF pc = "wait" THEN "signal" ELSE pc
    /\ UNCHANGED <<os, files, stepFiles, op, phase, idx, open, deferred, remote,
                   logs, ret, gor, gres, node, cvars, svars, dvars, xvars>>

(***************************************************************************)
(* dial and sftp.NewClient, the opening of all three operations.           *)
(***************************************************************************)
\* Where the operation goes once its sftp client is open.
AfterSftp ==
    CASE op = "Setup" -> [phase |-> "root", idx |-> 0, pc |-> "mkdirall"]
      [] op = "Run" -> IF Len(stepFiles) >= 1
                       THEN [phase |-> "files", idx |-> 1, pc |-> "create"]
                       ELSE [phase |-> "files", idx |-> 1, pc |-> "session"]
      [] OTHER -> [phase |-> "root", idx |-> 0, pc |-> "rmdir"]

Dial(ok) ==
    /\ pc = "dial"
    /\ remote' = Append(remote, Call("Dial", "", 0, ok))
    /\ IF ok
       THEN /\ open' = open \cup {"client"}
            /\ deferred' = DeferClose(deferred, "client")
            /\ pc' = "sftp"
            /\ ret' = ret
       ELSE Return(NoState, Err("dial"))
    /\ UNCHANGED <<os, files, stepFiles, op, phase, idx, logs, cancelled,
                   cancelAt, finishedFirst, node, gor, gres, cvars, svars, dvars,
                   xvars>>

NewSftpClient(ok) ==
    /\ pc = "sftp"
    /\ remote' = Append(remote, Call("NewClient", "", 0, ok))
    /\ IF ok
       THEN /\ open' = open \cup {"sftp"}
            /\ deferred' = DeferClose(deferred, "sftp")
            /\ pc' = AfterSftp.pc /\ phase' = AfterSftp.phase /\ idx' = AfterSftp.idx
            /\ ret' = ret
       ELSE /\ Return(NoState, Err("sftp"))
            /\ UNCHANGED <<phase, idx>>
    /\ UNCHANGED <<os, files, stepFiles, op, logs, cancelled, cancelAt,
                   finishedFirst, node, gor, gres, cvars, svars, dvars, xvars>>

(***************************************************************************)
(* mkdir: MkdirAll, then Chmod.  Only Setup calls it.                      *)
(***************************************************************************)
\* MkdirFailed with the return forgotten: the error is logged and Setup goes on
\* with the next entry.
MkdirFailedGoesOn(e) ==
    /\ logs' = Logged("error", "cannot create directory")
    /\ LET n == SetupNext(phase, idx) IN
         /\ phase' = n.phase /\ idx' = n.idx
         /\ IF n.pc = "return"
            THEN Return(NoState, NoErr)
            ELSE pc' = n.pc /\ UNCHANGED <<open, deferred, ret>>

MkdirFailed(e) ==
    /\ logs' = Logged("error", IF phase = "root"
                                THEN "cannot create workspace directory"
                                ELSE "cannot create directory")
    /\ Return(NoState, Err(e))
    /\ UNCHANGED <<phase, idx>>

MkdirAll(ok) ==
    /\ pc = "mkdirall"
    /\ remote' = Append(remote, Call("MkdirAll", CurPath, 0, ok))
    /\ IF ok
       THEN /\ pc' = "chmod"
            /\ UNCHANGED <<phase, idx, open, deferred, logs, ret>>
       ELSE MkdirFailed("mkdirall")
    /\ UNCHANGED <<os, files, stepFiles, op, cancelled, cancelAt,
                   finishedFirst, node, gor, gres, cvars, svars, dvars, xvars>>

Chmod(ok) ==
    /\ pc = "chmod"
    /\ remote' = Append(remote, Call("Chmod", CurPath, CurMode, ok))
    /\ IF ok
       THEN LET n == SetupNext(phase, idx) IN
            /\ phase' = n.phase /\ idx' = n.idx
            /\ IF n.pc = "return"
               THEN Return(NoState, NoErr)
               ELSE pc' = n.pc /\ UNCHANGED <<open, deferred, ret>>
            /\ logs' = logs
       ELSE MkdirFailed("chmod")
    /\ UNCHANGED <<os, files, stepFiles, op, cancelled, cancelAt,
                   finishedFirst, node, gor, gres, cvars, svars, dvars, xvars>>

(***************************************************************************)
(* upload: Create, Write, Chmod on the handle, with the handle's close     *)
(* deferred.  Setup uploads spec.Files, Run uploads step.Files.            *)
(***************************************************************************)
UploadFailed(e) ==
    /\ logs' = Logged("error", "cannot write file")
    /\ Return(NoState, Err(e))
    /\ UNCHANGED <<phase, idx>>

\* Where the operation goes once the upload at idx is done.
AfterUpload ==
    IF op = "Run"
    THEN IF idx + 1 <= Len(stepFiles)
         THEN [phase |-> "files", idx |-> idx + 1, pc |-> "create"]
         ELSE [phase |-> "files", idx |-> idx + 1, pc |-> "session"]
    ELSE SetupNext("files", idx)

Create(ok) ==
    /\ pc = "create"
    /\ remote' = Append(remote, Call("Create", CurFile.Path, 0, ok))
    /\ IF ok
       THEN /\ open' = open \cup {"file"}
            /\ deferred' = DeferClose(deferred, "file")
            /\ pc' = "write"
            /\ UNCHANGED <<phase, idx, logs, ret>>
       ELSE UploadFailed("create")
    /\ UNCHANGED <<os, files, stepFiles, op, cancelled, cancelAt,
                   finishedFirst, node, gor, gres, cvars, svars, dvars, xvars>>

Write(ok) ==
    /\ pc = "write"
    /\ remote' = Append(remote, Call("Write", CurFile.Path, 0, ok))
    /\ IF ok
       THEN /\ pc' = "fchmod"
            /\ UNCHANGED <<phase, idx, open, deferred, logs, ret>>
       ELSE UploadFailed("write")
    /\ UNCHANGED <<os, files, stepFiles, op, cancelled, cancelAt,
                   finishedFirst, node, gor, gres, cvars, svars, dvars, xvars>>

FileChmod(ok) ==
    /\ pc = "fchmod"
    /\ remote' = Append(remote, Call("FileChmod", CurFile.Path, CurFile.Mode, ok))
    /\ IF ok
       THEN LET n == AfterUpload IN
            /\ phase' = n.phase /\ idx' = n.idx
            /\ IF n.pc = "return"
               THEN Return(NoState, NoErr)
               ELSE /\ pc' = n.pc
                    /\ open' = open \ {"file"}
                    /\ deferred' = SubSeq(deferred, 1, Len(deferred) - 1)
                    /\ ret' = ret
            /\ logs' = logs
       ELSE UploadFailed("fchmod")
    /\ UNCHANGED <<os, files, stepFiles, op, cancelled, cancelAt,
                   finishedFirst, node, gor, gres, cvars, svars, dvars, xvars>>

(***************************************************************************)
(* Run: the session, the goroutine around session.Run, and the select.     *)
(***************************************************************************)
\* The command line of the step (its script and arguments).
StepCommand == <<"command", "args">>

\* RunNewSession going on to the command after a failed NewSession.
RunNewSessionFailedGoesOn(ok) ==
    /\ op = "Run" /\ pc = "session"
    /\ remote' = Append(remote, Call("NewSession", "", 0, ok))
    /\ open' = IF ok THEN open \cup {"session"} ELSE open
    /\ deferred' = IF ok THEN DeferClose(deferred, "session") ELSE deferred
    /\ pc' = "go"
    /\ ret' = ret
    /\ UNCHANGED <<os, files, stepFiles, op, phase, idx, logs, cancelled,
                   cancelAt, finishedFirst, node, gor, gres, cvars, svars, dvars,
                   xvars>>

RunNewSession(ok) ==
    /\ op = "Run" /\ pc = "session"
    /\ remote' = Append(remote, Call("NewSession", "", 0, ok))
    /\ IF ok
       THEN /\ open' = open \cup {"session"}
            /\ deferred' = DeferClose(deferred, "session")
            /\ pc' = "go"
            /\ ret' = ret
       ELSE Return(NoState, Err("session"))
    /\ UNCHANGED <<os, files, stepFiles, op, phase, idx, logs, cancelled,
                   cancelAt, finishedFirst, node, gor, gres, cvars, svars, dvars,
                   xvars>>

\* go func() { done <- session.Run(cmd) }(): the goroutine is made runnable;
\* it has not called session.Run yet.
RunGo ==
    /\ op = "Run" /\ pc = "go"
    /\ gor' = "runnable"
    /\ logs' = Logged("debug", "ssh session started")
    /\ pc' = "select"
    /\ UNCHANGED <<os, files, stepFiles, op, phase, idx, open, deferred,
                   remote, ret, cancelled, cancelAt, finishedFirst, node, gres,
                   cvars, svars, dvars, xvars>>

\* The goroutine calls session.Run(cmd), at any time after the go statement:
\* while Run is in its select, after Run signalled the session, or after Run
\* returned and its deferred session.Close() ran.  On a closed session the
\* call returns an error without starting the command.
GoSessionRun ==
    /\ gor = "runnable"
    /\ IF "session" \in open
       THEN /\ gor' = "running"
            /\ UNCHANGED <<remote, gres>>
       ELSE /\ gor' = "send"
            /\ gres' = Err("other")
            /\ remote' = Append(remote, CmdCall("Run", StepCommand, FALSE))
    /\ UNCHANGED <<os, files, stepFiles, op, pc, phase, idx, open, deferred,
                   logs, ret, cancelled, cancelAt, finishedFirst, node, cvars,
                   svars, dvars, xvars>>

\* session.Run returns inside the goroutine, which goes on to its send.
CmdFinish(r) ==
    /\ gor = "running"
    /\ gres' = r
    /\ gor' = "send"
    /\ remote' = Append(remote, CmdCall("Run", StepCommand, r = NoErr))
    /\ UNCHANGED <<os, files, stepFiles, op, pc, phase, idx, open, deferred,
                   logs, ret, cancelled, cancelAt, finishedFirst, node, cvars,
                   svars, dvars, xvars>>

\* case err = <-done, and the rest of Run after the select.
Received ==
    /\ gor' = "exited"
    /\ logs' = Logged("debug", "ssh session finished")
    /\ Return(StateOf(gres), gres)
    /\ UNCHANGED <<os, files, stepFiles, op, phase, idx, remote, cancelled,
                   cancelAt, finishedFirst, node, gres, cvars, svars, dvars, xvars>>

\* Run reaches its select: a case that can proceed is taken, any of them when
\* both can; when none can, Run parks.
RunSelect ==
    /\ op = "Run" /\ pc = "select"
    /\ \/ gor = "send" /\ Received
       \/ /\ cancelled
          /\ pc' = "signal"
          /\ UNCHANGED <<os, files, stepFiles, op, phase, idx, open, deferred,
                         remote, logs, ret, cancelled, cancelAt,
                         finishedFirst, node, gor, gres, cvars, svars, dvars,
                         xvars>>
       \/ /\ gor # "send" /\ ~cancelled
          /\ pc' = "wait"
          /\ UNCHANGED <<os, files, stepFiles, op, phase, idx, open, deferred,
                         remote, logs, ret, cancelled, cancelAt,
                         finishedFirst, node, gor, gres, cvars, svars, dvars,
                         xvars>>

\* The goroutine's send finds Run parked on done and hands the error over.
GoSend ==
    /\ op = "Run" /\ pc = "wait" /\ gor = "send"
    /\ Received

\* RunSignal returning the error of a failed Signal instead of ctx.Err().
RunSignalReturnsSignalError(ok) ==
    /\ op = "Run" /\ pc = "signal"
    /\ remote' = Append(remote, Call("Signal", "SIGKILL", 0, ok))
    /\ logs' = Logged("debug", "ssh session killed")
    /\ Return(NoState, IF ok THEN Canceled ELSE Err("signal"))
    /\ UNCHANGED <<os, files, stepFiles, op, phase, idx, cancelled, cancelAt,
                   finishedFirst, node, gor, gres, cvars, svars, dvars, xvars>>

\* case <-ctx.Done(): session.Signal(ssh.SIGKILL), then return nil, ctx.Err().
RunSignal(ok) ==
    /\ op = "Run" /\ pc = "signal"
    /\ remote' = Append(remote, Call("Signal", "SIGKILL", 0, ok))
    /\ logs' = IF ok
               THEN Logged("debug", "ssh session killed")
               ELSE Append(Logged("debug", "kill remote process"),
                           [level |-> "debug", msg |-> "ssh session killed"])
    /\ Return(NoState, Canceled)
    /\ UNCHANGED <<os, files, stepFiles, op, phase, idx, cancelled, cancelAt,
                   finishedFirst, node, gor, gres, cvars, svars, dvars, xvars>>

(***************************************************************************)
(* Destroy: RemoveDirectory, and the remove command as the fallback.       *)
(***************************************************************************)
\* DestroyRemoveDirectory going on to the fallback whatever RemoveDirectory
\* returned.
DestroyRemoveDirectoryFallsThrough(ok) ==
    /\ op = "Destroy" /\ pc = "rmdir"
    /\ remote' = Append(remote, Call("RemoveDirectory", Root, 0, ok))
    /\ logs' = Logged("trace", "cannot remove workspace using sftp")
    /\ pc' = "session"
    /\ UNCHANGED <<open, deferred, ret>>
    /\ UNCHANGED <<os, files, stepFiles, op, phase, idx, cancelled, cancelAt,
                   finishedFirst, node, gor, gres, cvars, svars, dvars, xvars>>

DestroyRemoveDirectory(ok) ==
    /\ op = "Destroy" /\ pc = "rmdir"
    /\ remote' = Append(remote, Call("RemoveDirectory", Root, 0, ok))
    /\ IF ok
       THEN /\ Return(NoState, NoErr)
            /\ logs' = logs
       ELSE /\ logs' = Logged("trace", "cannot remove workspace using sftp")
            /\ pc' = "session"
            /\ UNCHANGED <<open, deferred, ret>>
    /\ UNCHANGED <<os, files, stepFiles, op, phase, idx, cancelled, cancelAt,
                   finishedFirst, node, gor, gres, cvars, svars, dvars, xvars>>

DestroyNewSession(ok) ==
    /\ op = "Destroy" /\ pc = "session"
    /\ remote' = Append(remote, Call("NewSession", "", 0, ok))
    /\ IF ok
       THEN /\ open' = open \cup {"session"}
            /\ deferred' = DeferClose(deferred, "session")
            /\ pc' = "rmcmd"
            /\ ret' = ret
       ELSE Return(NoState, Err("session"))
    /\ UNCHANGED <<os, files, stepFiles, op, phase, idx, logs, cancelled,
                   cancelAt, finishedFirst, node, gor, gres, cvars, svars, dvars,
                   xvars>>

\* err = session.Run(removeCommand(os, root)); a failure is logged; return err.
DestroyRun(r) ==
    /\ op = "Destroy" /\ pc = "rmcmd"
    /\ remote' = Append(remote, CmdCall("Run", removeCommand(os, Root), r = NoErr))
    /\ logs' = IF r # NoErr THEN Logged("warn", "cannot remove workspace") ELSE logs
    /\ Return(NoState, r)
    /\ UNCHANGED <<os, files, stepFiles, op, phase, idx, cancelled, cancelAt,
                   finishedFirst, node, gor, gres, cvars, svars, dvars, xvars>>

(***************************************************************************)
(* The executor's result derivation for the step Run was called for.       *)
(***************************************************************************)
\* After Engine.Run returns the node is done.  Its result is errored when
\* Run returned an error that is not an exit status, else success for exit
\* code 0 and failure otherwise; a cancelled step reports cancelled.  The
\* exit code is the State's, and 255 for a failure that left no State.
ExecResult ==
    /\ op = "Run" /\ pc = "returned" /\ node.state = "running"
    /\ LET result ==
               IF ret.err = Canceled THEN "cancelled"
               ELSE IF ret.err # NoErr /\ ret.err.kind # "exit" THEN "errored"
               ELSE IF ret.state.ExitCode = 0 THEN "success"
               ELSE "failure"
           exit_code ==
               IF ret.state.present THEN ret.state.ExitCode
               ELSE IF result = "errored" THEN 255
               ELSE 0
       IN  node' = [state |-> "done", result |-> result,
                    exit_code |-> exit_code]
    /\ UNCHANGED <<os, files, stepFiles, op, pc, phase, idx, open, deferred,
                   remote, logs, ret, cancelled, cancelAt, finishedFirst, gor,
                   gres, cvars, svars, dvars, xvars>>

(***************************************************************************)
(* The engine.                                                             *)
(***************************************************************************)
Next ==
    \/ StartSetup
    \/ StartRun
    \/ StartDestroy
    \/ Cancel
    \/ ExecResult
    \/ \E ok \in BOOLEAN : Dial(ok)
    \/ \E ok \in BOOLEAN : NewSftpClient(ok)
    \/ \E ok \in BOOLEAN : MkdirAll(ok)
    \/ \E ok \in BOOLEAN : Chmod(ok)
    \/ \E ok \in BOOLEAN : Create(ok)
    \/ \E ok \in BOOLEAN : Write(ok)
    \/ \E ok \in BOOLEAN : FileChmod(ok)
    \/ \E ok \in BOOLEAN : RunNewSession(ok)
    \/ RunGo
    \/ GoSessionRun
    \/ \E r \in SessionOutcomes : CmdFinish(r)
    \/ RunSelect
    \/ GoSend
    \/ \E ok \in BOOLEAN : RunSignal(ok)
    \/ \E ok \in BOOLEAN : DestroyRemoveDirectory(ok)
    \/ \E ok \in BOOLEAN : DestroyNewSession(ok)
    \/ \E r \in SessionOutcomes : DestroyRun(r)

Spec == Init /\ [][Next]_vars

(***************************************************************************)
(* The pipelines handed to the compiler front end.                         *)
(***************************************************************************)
Servers ==
    { [Host |-> h, User |-> u, Password |-> pw, SSHKey |-> k] :
        h \in {Unset, Variable("example.com", "")},
        u \in {Unset, Variable("", "username")},
        pw \in {Unset, Variable("correct-horse", "")},
        k \in {Unset, Variable("", "ssh_key")} }

StepNames == {"", "clone", "build", "test"}

\* The conditions of a step, by what the compiler asks of them: isRunAlways,
\* isRunOnFailure and When.Match.
When(always, onFailure, match) ==
    [Always |-> always, OnFailure |-> onFailure, Match |-> match]

\* A step of the pipeline that sets nothing but its name.
PlainStep(nm) ==
    [Name |-> nm, DependsOn |-> <<>>, Environment |-> NoEnvs,
     When |-> When(FALSE, FALSE, TRUE)]

SourceSteps ==
    UNION { [1..n -> {PlainStep(nm) : nm \in StepNames}] : n \in 0..MaxSteps }

Pipelines ==
    { [Server |-> sv, Platform |-> [OS |-> "linux"], Clone |-> [Disable |-> d],
       Steps |-> st] :
        sv \in Servers, d \in BOOLEAN, st \in SourceSteps }

\* The names seen by lint's loop before it reaches step i.
NamesBefore(p, i) == {p.Steps[j].Name : j \in 1..(i-1)}

lintAcceptsServerWithoutKey(p) ==
    IF p.Server.Host.Value = "" /\ p.Server.Host.Secret = ""
    THEN "Linter: invalid or missing server host"
    ELSE IF p.Server.User.Value = "" /\ p.Server.User.Secret = ""
    THEN "Linter: invalid or missing server user"
    ELSE IF \E i \in 1..Len(p.Steps) :
                \/ p.Steps[i].Name = ""
                \/ p.Steps[i].Name \in NamesBefore(p, i)
    THEN "Linter: invalid or missing step name"
    ELSE ""

\* lint(pipeline): the error it returns, "" for nil.
lint(p) ==
    IF p.Server.Host.Value = "" /\ p.Server.Host.Secret = ""
    THEN "Linter: invalid or missing server host"
    ELSE IF p.Server.User.Value = "" /\ p.Server.User.Secret = ""
    THEN "Linter: invalid or missing server user"
    ELSE IF /\ p.Server.Password.Value = "" /\ p.Server.Password.Secret = ""
            /\ p.Server.SSHKey.Value = "" /\ p.Server.SSHKey.Secret = ""
    THEN "Linter: invalid or missing server password or ssh_key"
    ELSE LET bad == {i \in 1..Len(p.Steps) :
                        \/ p.Steps[i].Name = ""
                        \/ p.Steps[i].Name \in NamesBefore(p, i)}
         IN  IF bad = {} THEN ""
             ELSE LET i == CHOOSE k \in bad : \A m \in bad : k <= m
                  IN  IF p.Steps[i].Name = ""
                      THEN "Linter: invalid or missing step name"
                      ELSE "Linter: duplicate step name"

(***************************************************************************)
(* The providers Compile consults, and the maps it combines.               *)
(***************************************************************************)
\* provider.Find of the combined provider: the secret or nil; its error is
\* the second result, which findSecret drops.
Find(pr, name) == pr.Secrets[name]

\* findSecret(ctx, args, name): (s, ok).
findSecret(pr, name) ==
    IF name = "" THEN [s |-> "", ok |-> FALSE]
    ELSE LET found == Find(pr, name)
         IN  IF found.kind # "found" THEN [s |-> "", ok |-> FALSE]
             ELSE [s |-> found.Data, ok |-> TRUE]

\* environ.Combine of two maps: the later map wins.
Combine(a, b) ==
    [k \in DOMAIN a \cup DOMAIN b |-> IF k \in DOMAIN b THEN b[k] ELSE a[k]]

FilterMasked(globals) == SelectSeq(globals, LAMBDA g : g.Mask)
FilterUnmasked(globals) == SelectSeq(globals, LAMBDA g : ~g.Mask)

\* provider.ToMap: name -> data, a later variable of the list wins.
ToMap(globals) ==
    [k \in {globals[i].Name : i \in DOMAIN globals} |->
        LET last == CHOOSE i \in DOMAIN globals :
                        /\ globals[i].Name = k
                        /\ \A j \in DOMAIN globals : globals[j].Name = k => j <= i
        IN  globals[last].Data]

(***************************************************************************)
(* The paths of the Spec.  A path is the string the platform spells: join  *)
(* puts the separator of the platform between the elements.                *)
(***************************************************************************)
\* join(os, paths...): the elements, in order, with the separator of os.
RECURSIVE join(_, _, _)
join(o, dir, elems) ==
    LET separator == IF o = "windows" THEN "\\" ELSE "/"
    IN  IF elems = <<>> THEN dir
        ELSE join(o, dir \o separator \o Head(elems), Tail(elems))

\* tempdir(os): the directory of this pipeline below the temporary
\* directory of the platform.
tempdir(o) ==
    join(o, IF o = "windows" THEN "%TEMP%" ELSE "/tmp", <<"drone-random">>)

\* getNetrc(os): the name of the netrc file on the platform.
getNetrc(o) == IF o = "windows" THEN "_netrc" ELSE ".netrc"

\* The home and the workspace directory below spec.Root = tempdir(os).
homedir(o) == join(o, tempdir(o), <<"home", "drone">>)
sourcedir(o) == join(o, tempdir(o), <<"drone", "src">>)

\* The default environment variables of every step.
envs(o, a, pr) ==
    Combine(Combine(Combine(ToMap(FilterUnmasked(pr.Globals)), a.Params),
                    a.Metadata),
            [k \in {"HOME", "HOMEPATH", "USERPROFILE", "DRONE_HOME",
                    "DRONE_WORKSPACE", "GIT_TERMINAL_PROMPT"} |->
                IF k \in {"HOME", "HOMEPATH", "USERPROFILE"} THEN homedir(o)
                ELSE IF k \in {"DRONE_HOME", "DRONE_WORKSPACE"}
                     THEN sourcedir(o)
                ELSE "0"])

\* An entry of spec.Files.
SpecFile(path, mode, isDir, data) ==
    [Path |-> path, Mode |-> mode, IsDir |-> isDir, Data |-> data]

\* The directories every Spec holds, in the order Compile appends them.
SpecDirs(o) ==
    <<SpecFile(join(o, tempdir(o), <<"home">>), DirMode, TRUE, <<>>),
      SpecFile(homedir(o), DirMode, TRUE, <<>>),
      SpecFile(join(o, tempdir(o), <<"drone">>), DirMode, TRUE, <<>>),
      SpecFile(sourcedir(o), DirMode, TRUE, <<>>),
      SpecFile(join(o, tempdir(o), <<"opt">>), DirMode, TRUE, <<>>)>>

\* The netrc entry: fmt.Sprintf("machine %s login %s password %s", ...).
NetrcFile(o, n) ==
    SpecFile(join(o, homedir(o), <<getNetrc(o)>>), FileMode, FALSE,
             "machine " \o n.Machine \o " login " \o n.Login \o " password "
                 \o n.Password)

CompileFilesForAnyNetrc(p, a) ==
    SpecDirs(p.Platform.OS) \o
    (IF ~a.Netrc.Nil THEN <<NetrcFile(p.Platform.OS, a.Netrc)>> ELSE <<>>)

\* spec.Files as Compile leaves it.
CompileFiles(p, a) ==
    SpecDirs(p.Platform.OS) \o
    (IF ~a.Netrc.Nil /\ a.Netrc.Password # ""
     THEN <<NetrcFile(p.Platform.OS, a.Netrc)>> ELSE <<>>)

(***************************************************************************)
(* The server of the Spec.                                                 *)
(***************************************************************************)
\* A host string as its pieces, so that a ":" in it can be looked for and a
\* port can be put after it.
Chars(s) ==
    CASE s = "" -> <<>>
      [] s = "example.com" -> <<"example.com">>
      [] s = "example.com:2222" -> <<"example.com", ":", "2222">>
      [] s = "10.0.0.1" -> <<"10.0.0.1">>
      [] s = "10.0.0.1:2200" -> <<"10.0.0.1", ":", "2200">>

\* strings.Contains(s, sub) for a one-piece sub.
Contains(s, sub) == \E i \in DOMAIN s : s[i] = sub

\* The value of a Secretable after the lookup of its secret: the literal,
\* overridden by the secret when findSecret says ok.
Resolved(pr, v) ==
    IF findSecret(pr, v.Secret).ok THEN findSecret(pr, v.Secret).s ELSE v.Value

\* The port is put after the literal host, before the secret is looked up.
HostnamePortBeforeSecret(p, pr) ==
    LET literal == Chars(p.Server.Host.Value)
        ported == IF ~Contains(literal, ":") THEN literal \o <<":", "22">>
                  ELSE literal
    IN  IF findSecret(pr, p.Server.Host.Secret).ok
        THEN Chars(findSecret(pr, p.Server.Host.Secret).s)
        ELSE ported

\* spec.Server.Hostname: the resolved host, with ":22" when it has no ":".
Hostname(p, pr) ==
    LET host == Chars(Resolved(pr, p.Server.Host))
    IN  IF ~Contains(host, ":") THEN host \o <<":", "22">> ELSE host

CompileServer(p, pr) ==
    [Hostname |-> Hostname(p, pr),
     Username |-> Resolved(pr, p.Server.User),
     Password |-> Resolved(pr, p.Server.Password),
     SSHKey |-> Resolved(pr, p.Server.SSHKey)]

(***************************************************************************)
(* The steps of the Spec.                                                  *)
(***************************************************************************)
RunAlways == "always"
RunOnSuccess == "on_success"
RunOnFailure == "on_failure"
RunNever == "never"

isRunAlways(src) == src.When.Always
isRunOnFailure(src) == src.When.OnFailure

\* The run policy wins over unmet conditions.
RunPolicyOfIgnoresWhen(src) ==
    IF isRunAlways(src) THEN RunAlways
    ELSE IF isRunOnFailure(src) THEN RunOnFailure
    ELSE IF ~src.When.Match THEN RunNever
    ELSE RunOnSuccess

\* The run policy of a user step: on success by default, always or on
\* failure when configured so, and never when its conditions are unmet.
RunPolicyOf(src) ==
    LET configured == IF isRunAlways(src) THEN RunAlways
                      ELSE IF isRunOnFailure(src) THEN RunOnFailure
                      ELSE RunOnSuccess
    IN  IF ~src.When.Match THEN RunNever ELSE configured

\* The keys of step environments, and the orders a range over such a map
\* may visit them in.
EnvironmentKeys == {"GOOS", "TOKEN"}
KeyOrders ==
    {f \in [1..Cardinality(EnvironmentKeys) -> EnvironmentKeys] :
        \A i, j \in DOMAIN f : i # j => f[i] # f[j]}

\* The entries of a step environment that hold a value.
convertStaticEnv(src) ==
    [k \in {e \in DOMAIN src : src[e].Secret = ""} |-> src[k].Value]

\* environ.Expand: a copy of the environment whose PATH, when it is not
\* empty, has its references to $PATH replaced by the PATH of the runner
\* process; every other entry is kept as it is.  A PATH value is taken as
\* its pieces, so that the reference in it can be found.
Expand(env) ==
    LET getenv == "/usr/local/bin:/usr/bin"
        pieces(v) ==
            CASE v = "/opt/bin" -> <<"/opt/bin", "", "">>
              [] v = "/opt/bin:$PATH" -> <<"/opt/bin:", "$PATH", "">>
              [] v = "$PATH:/opt/bin" -> <<"", "$PATH", ":/opt/bin">>
              [] v = "$PATH:/opt/bin:$PATH" -> <<"$PATH", ":/opt/bin:", "$PATH">>
        mapped(s) == IF s = "$PATH" THEN getenv ELSE s
    IN  [k \in DOMAIN env |->
            IF k = "PATH" /\ env[k] # ""
            THEN mapped(pieces(env[k])[1]) \o mapped(pieces(env[k])[2])
                     \o mapped(pieces(env[k])[3])
            ELSE env[k]]

\* The entries of a step environment that name a secret, in the order the
\* map was visited in.
convertSecretEnv(src, iter) ==
    LET ks == SelectSeq(iter, LAMBDA k : k \in DOMAIN src /\ src[k].Secret # "")
    IN  [i \in 1..Len(ks) |->
            [Name |-> src[ks[i]].Secret, Data |-> "", Mask |-> TRUE, Env |-> ks[i]]]

\* The clone step Compile puts first unless clone is disabled.
CloneSteps(p, a, pr) ==
    IF p.Clone.Disable = FALSE
    THEN <<[Name |-> "clone", DependsOn |-> <<>>,
            Envs |-> envs(p.Platform.OS, a, pr),
            RunPolicy |-> RunAlways, Secrets |-> <<>>,
            WorkingDir |-> sourcedir(p.Platform.OS)]>>
    ELSE <<>>

\* The clone step comes after the user steps.
CreateStepsCloneLast(p, a, pr, iter) ==
    [i \in 1..Len(p.Steps) |->
        [Name |-> p.Steps[i].Name,
         DependsOn |-> p.Steps[i].DependsOn,
         Envs |-> Combine(envs(p.Platform.OS, a, pr),
                          Expand(convertStaticEnv(p.Steps[i].Environment))),
         RunPolicy |-> RunPolicyOf(p.Steps[i]),
         Secrets |-> convertSecretEnv(p.Steps[i].Environment, iter),
         WorkingDir |-> sourcedir(p.Platform.OS)]]
    \o CloneSteps(p, a, pr)

\* spec.Steps after the two "create" parts of Compile: the clone step, maybe,
\* then one step per source step, in source order.
CreateSteps(p, a, pr, iter) ==
    CloneSteps(p, a, pr) \o
    [i \in 1..Len(p.Steps) |->
        [Name |-> p.Steps[i].Name,
         DependsOn |-> p.Steps[i].DependsOn,
         Envs |-> Combine(envs(p.Platform.OS, a, pr),
                          Expand(convertStaticEnv(p.Steps[i].Environment))),
         RunPolicy |-> RunPolicyOf(p.Steps[i]),
         Secrets |-> convertSecretEnv(p.Steps[i].Environment, iter),
         WorkingDir |-> sourcedir(p.Platform.OS)]]

(***************************************************************************)
(* The shape of the dependency graph.                                      *)
(***************************************************************************)
isGraph(steps) == \E i \in DOMAIN steps : Len(steps[i].DependsOn) > 0

\* Step i depends on step i-1.
configureSerial(steps) ==
    [i \in DOMAIN steps |->
        IF i = 1 THEN steps[i]
        ELSE [steps[i] EXCEPT !.DependsOn = <<steps[i-1].Name>>]]

\* Every user step (the steps after the clone step) with no dependency
\* depends on clone.
configureCloneDeps(steps) ==
    [i \in DOMAIN steps |->
        IF i > 1 /\ Len(steps[i].DependsOn) = 0
        THEN [steps[i] EXCEPT !.DependsOn = <<"clone">>]
        ELSE steps[i]]

\* Every reference to clone is taken out of the dependency lists.
removeCloneDeps(steps) ==
    [i \in DOMAIN steps |->
        [steps[i] EXCEPT !.DependsOn = SelectSeq(@, LAMBDA d : d # "clone")]]

\* The steps are never put in a chain.
ConfigureGraphNeverSerial(p, steps) ==
    IF p.Clone.Disable = FALSE THEN configureCloneDeps(steps)
    ELSE removeCloneDeps(steps)

\* The graph of a pipeline with clone disabled is shaped as if clone ran.
ConfigureGraphForgetsDisable(p, steps) ==
    IF isGraph(steps) = FALSE THEN configureSerial(steps)
    ELSE configureCloneDeps(steps)

\* The branch Compile takes to shape the graph.
ConfigureGraph(p, steps) ==
    IF isGraph(steps) = FALSE THEN configureSerial(steps)
    ELSE IF p.Clone.Disable = FALSE THEN configureCloneDeps(steps)
    ELSE removeCloneDeps(steps)

(***************************************************************************)
(* The secrets of the steps.                                               *)
(***************************************************************************)
\* Every global counts as masked.
MaskedSecretsOfEveryGlobal(globals) ==
    [j \in DOMAIN globals |->
        [Name |-> globals[j].Name, Data |-> globals[j].Data,
         Mask |-> globals[j].Mask, Env |-> globals[j].Name]]

\* The secrets made of the masked globals.
MaskedSecrets(globals) ==
    LET masked == FilterMasked(globals)
    IN  [j \in DOMAIN masked |->
            [Name |-> masked[j].Name, Data |-> masked[j].Data,
             Mask |-> masked[j].Mask, Env |-> masked[j].Name]]

\* Every step is given the masked globals as secrets.
AppendMasked(steps, globals) ==
    [i \in DOMAIN steps |->
        [steps[i] EXCEPT !.Secrets = @ \o MaskedSecrets(globals)]]

\* Every secret of every step takes the data findSecret finds under its name.
ResolveSecrets(steps, pr) ==
    [i \in DOMAIN steps |->
        [steps[i] EXCEPT !.Secrets =
            [k \in DOMAIN steps[i].Secrets |->
                LET s == steps[i].Secrets[k]
                IN  IF findSecret(pr, s.Name).ok
                    THEN [s EXCEPT !.Data = findSecret(pr, s.Name).s]
                    ELSE s]]]

\* The steps of the Spec Compile returns.
CompileSteps(p, a, pr, iter) ==
    ResolveSecrets(
        AppendMasked(ConfigureGraph(p, CreateSteps(p, a, pr, iter)), pr.Globals),
        pr)

(***************************************************************************)
(* The inputs of the compiler front end.                                   *)
(***************************************************************************)
Input(p, a, pr) == [pipeline |-> p, args |-> a, providers |-> pr]

\* A server lint accepts.
ValidServer ==
    [Host |-> Variable("example.com", ""), User |-> Variable("root", ""),
     Password |-> Variable("correct-horse", ""), SSHKey |-> Unset]

PipelineOf(sv, d, st) ==
    [Server |-> sv, Platform |-> [OS |-> "linux"], Clone |-> [Disable |-> d],
     Steps |-> st]

\* The resources parse is handed: of this or another kind and type, with
\* data that unmarshals or not.
RawResources ==
    {RawResource(k, t, w) :
        k \in {Kind, "secret"}, t \in {Type, "docker"}, w \in BOOLEAN}

\* Pipelines that differ in server, clone and step names.
NameInputs == {Input(p, NoArgs, NoProviders) : p \in Pipelines}

\* Pipelines that differ in the dependencies of their steps.
GraphNames == {"clone", "build", "test"}
DependsOnLists ==
    {<<>>, <<"clone">>, <<"build">>, <<"deploy">>, <<"build", "clone">>,
     <<"clone", "test">>}
GraphSteps ==
    UNION { [1..n -> {[PlainStep(nm) EXCEPT !.DependsOn = deps] :
                        nm \in GraphNames, deps \in DependsOnLists}] :
            n \in 0..MaxSteps }
GraphInputs ==
    {Input(PipelineOf(ValidServer, d, st), NoArgs, NoProviders) :
        d \in BOOLEAN, st \in GraphSteps}

\* Pipelines that differ in the conditions of their steps.
PositionNames == <<"build", "test", "deploy", "notify">>
Whens == {When(a, f, m) : a \in BOOLEAN, f \in BOOLEAN, m \in BOOLEAN}
PolicySteps ==
    UNION { {[i \in 1..n |-> [PlainStep(PositionNames[i]) EXCEPT !.When = w[i]]] :
                w \in [1..n -> Whens]} : n \in 0..MaxSteps }
PolicyInputs ==
    {Input(PipelineOf(ValidServer, d, st), NoArgs, NoProviders) :
        d \in BOOLEAN, st \in PolicySteps}

\* Pipelines that differ in the host of their server and in what the
\* secret provider answers for it.
HostVariables ==
    {Variable(v, s) : v \in {"", "example.com", "example.com:2222"},
                      s \in {"", "host_secret"}}
HostAnswers ==
    {Missing, ProviderError, Found(""), Found("10.0.0.1"), Found("10.0.0.1:2200")}
HostInputs ==
    {Input(PipelineOf([ValidServer EXCEPT !.Host = h], d, <<>>), NoArgs,
           [NoProviders EXCEPT !.Secrets["host_secret"] = ans]) :
        h \in HostVariables, d \in BOOLEAN, ans \in HostAnswers}

\* Pipelines of one step at most that differ in the environment of the step,
\* in the globals of the environment provider, in the build parameters and
\* in what the secret provider answers.
Globals ==
    {Global(n, IF n = "CI" THEN "true" ELSE "global-token", m) :
        n \in {"CI", "TOKEN"}, m \in BOOLEAN}
GlobalLists == UNION { [1..n -> Globals] : n \in 0..MaxGlobals }
Environments ==
    { [k \in ks |-> IF k = "GOOS" THEN g ELSE t] :
        ks \in SUBSET EnvironmentKeys,
        g \in {Variable("linux", ""), Variable("", "tok")},
        t \in {Variable("literal", ""), Variable("", "tok"), Variable("", "TOKEN")} }
SecretSteps ==
    {<<>>} \cup {<<[PlainStep("build") EXCEPT !.Environment = e]>> :
                    e \in Environments}
SecretAnswers ==
    { [NoSecrets EXCEPT !["tok"] = t, !["TOKEN"] = g] :
        t \in {Missing, ProviderError, Found("s3cret")},
        g \in {Missing, Found("vault-token")} }
SecretInputs ==
    {Input(PipelineOf(ValidServer, d, st),
           [NoArgs EXCEPT !.Params = pm,
                          !.Metadata = [k \in {"DRONE_BRANCH"} |-> "main"]],
           [Globals |-> gl, Secrets |-> ans]) :
        d \in BOOLEAN, st \in SecretSteps,
        pm \in {NoEnvs, [k \in {"HOME", "TOKEN"} |-> "param"]},
        gl \in GlobalLists, ans \in SecretAnswers}

\* Pipelines of one step whose environment sets PATH, with and without a
\* reference to the PATH of the runner, next to another variable that
\* holds the same text.
PathInputs ==
    {Input(PipelineOf(ValidServer, d,
                      <<[PlainStep("build") EXCEPT !.Environment =
                            [k \in {"PATH", "GOOS"} |-> Variable(v, "")]]>>),
           NoArgs, NoProviders) :
        d \in BOOLEAN,
        v \in {"", "/opt/bin", "/opt/bin:$PATH", "$PATH:/opt/bin",
               "$PATH:/opt/bin:$PATH"}}

\* Pipelines without steps that differ in their platform and in the netrc
\* of the build.
Netrcs ==
    {NoNetrc, Netrc("git.example", "u", ""), Netrc("git.example", "u", "p"),
     Netrc("", "", "p")}
NetrcInputs ==
    {Input([PipelineOf(ValidServer, d, <<>>) EXCEPT !.Platform.OS = o],
           [NoArgs EXCEPT !.Netrc = n], NoProviders) :
        d \in BOOLEAN, o \in {"", "linux", "windows"}, n \in Netrcs}

(***************************************************************************)
(* The compiler front end: lint, then Compile on what lint accepted.       *)
(***************************************************************************)
\* match(r)
match(r) == r.Kind = Kind /\ r.Type = Type

\* parse on a resource that does not match, or whose data does not
\* unmarshal: lint is not reached.
ParseWithoutLint ==
    /\ cpc = "parsed"
    /\ ~match(resource) \/ ~resource.WellFormed
    /\ parsed' = IF ~match(resource) THEN ParseResult(FALSE, FALSE, "")
                 ELSE ParseResult(TRUE, TRUE, "yaml: unmarshal errors")
    /\ cpc' = "returned"
    /\ UNCHANGED <<pipeline, args, providers, lintErr, compiled, specServer,
                   specFiles, resource, evars, svars, dvars, xvars>>

\* parse on a matching resource whose data unmarshals: it returns what lint
\* returns.
Lint ==
    /\ cpc = "parsed"
    /\ match(resource) /\ resource.WellFormed
    /\ lintErr' = lint(pipeline)
    /\ parsed' = ParseResult(TRUE, TRUE, lint(pipeline))
    /\ cpc' = "linted"
    /\ UNCHANGED <<pipeline, args, providers, compiled, specServer, specFiles,
                   resource, evars, svars, dvars, xvars>>

Compile ==
    /\ cpc = "linted" /\ lintErr = ""
    /\ \E iter \in KeyOrders :
           compiled' = CompileSteps(pipeline, args, providers, iter)
    /\ specServer' = CompileServer(pipeline, providers)
    /\ specFiles' = CompileFiles(pipeline, args)
    /\ cpc' = "compiled"
    /\ UNCHANGED <<pipeline, args, providers, lintErr, resource, parsed, evars,
                   svars, dvars, xvars>>

\* The front end is handed one of the inputs.
Given(in) ==
    /\ pipeline = in.pipeline
    /\ args = in.args
    /\ providers = in.providers

CompileInit ==
    /\ os = "linux" /\ files = <<>> /\ stepFiles = <<>>
    /\ EngineIdle
    /\ \/ \E in \in NameInputs, r \in RawResources : Given(in) /\ resource = r
       \/ /\ resource = RawResource(Kind, Type, TRUE)
          /\ \/ \E in \in GraphInputs : Given(in)
             \/ \E in \in PolicyInputs : Given(in)
             \/ \E in \in HostInputs : Given(in)
             \/ \E in \in SecretInputs : Given(in)
             \/ \E in \in NetrcInputs : Given(in)
             \/ \E in \in PathInputs : Given(in)
    /\ cpc = "parsed" /\ lintErr = "" /\ compiled = <<>>
    /\ specServer = NoServer /\ specFiles = <<>> /\ parsed = NotParsed
    /\ ScriptIdle
    /\ DaemonIdle
    /\ StageIdle

CompileNext == ParseWithoutLint \/ Lint \/ Compile

CompileSpec == CompileInit /\ [][CompileNext]_vars

(***************************************************************************)
(* The script Run writes in front of every file of a step.                 *)
(***************************************************************************)
\* The bytes of the keys and the base64 text of the values the model writes.
Bytes(s) ==
    CASE s = "B" -> <<66>>
      [] s = "a" -> <<97>>
      [] s = "ab" -> <<97, 98>>
      [] s = "c" -> <<99>>

Base64(s) ==
    CASE s = "" -> ""
      [] s = "b" -> "Yg=="
      [] s = "d" -> "ZA=="
      [] s = "s3cret" -> "czNjcmV0"

\* a < b as sort.Strings compares strings: byte by byte, a proper prefix
\* first.
Less(a, b) ==
    LET x == Bytes(a)
        y == Bytes(b)
    IN  \E i \in 1..Len(y) :
            /\ \A j \in 1..(i-1) : j <= Len(x) /\ x[j] = y[j]
            /\ \/ i = Len(x) + 1
               \/ i <= Len(x) /\ x[i] < y[i]

\* sorted with k put in its place.
Insert(sorted, k) ==
    LET n == Cardinality({i \in DOMAIN sorted : Less(sorted[i], k)})
    IN  SubSeq(sorted, 1, n) \o <<k>> \o SubSeq(sorted, n + 1, Len(sorted))

RECURSIVE SortStrings(_)
SortStrings(keys) ==
    IF keys = <<>> THEN <<>> ELSE Insert(SortStrings(Tail(keys)), Head(keys))

\* The orders a range over a map of these keys may visit them in.
RangeOrders(keys) ==
    {f \in [1..Cardinality(keys) -> keys] :
        \A i, j \in DOMAIN f : i # j => f[i] # f[j]}

\* What one call of Fprintf and Fprintln puts in the buffer: a line, as its
\* pieces.
writeWorkdir(path) == <<"cd ", path, "\n">>

writeEnv(o, key, value) ==
    IF o = "windows"
    THEN <<"$Env:", key,
           " = \"$([Text.Encoding]::Utf8.GetString([Convert]::FromBase64String('",
           Base64(value), "')))\"", "\n">>
    ELSE <<"export ", key, "=\"$(echo ", Base64(value), " | base64 -d)\"", "\n">>

writeSecrets(o, secrets) ==
    [i \in DOMAIN secrets |-> writeEnv(o, secrets[i].Env, secrets[i].Data)]

\* The keys are written in the order the range over the map gave them.
writeEnvironInRangeOrder(o, e, range) ==
    [i \in DOMAIN range |-> writeEnv(o, range[i], e[range[i]])]

\* range is the order in which the range over the map gave the keys.
writeEnviron(o, e, range) ==
    LET keys == SortStrings(range)
    IN  [i \in DOMAIN keys |-> writeEnv(o, keys[i], e[keys[i]])]

\* The environment is written before the secrets.
ScriptEnvironFirst(o, st, file, range) ==
    <<writeWorkdir(st.WorkingDir)>> \o writeEnviron(o, st.Envs, range)
        \o writeSecrets(o, st.Secrets) \o <<file.Data>>

\* The buffer of a file when Run hands it to upload.
Script(o, st, file, range) ==
    <<writeWorkdir(st.WorkingDir)>> \o writeSecrets(o, st.Secrets)
        \o writeEnviron(o, st.Envs, range) \o <<file.Data>>

\* The loop of Run over step.Files: the script of the file is written to a
\* new buffer ...
WriteScript ==
    /\ spc = "write"
    /\ \E range \in RangeOrders(DOMAIN step.Envs) :
           buf' = Script(os, step, step.Files[fidx], range)
    /\ spc' = "upload"
    /\ UNCHANGED <<step, fidx, uploads, evars, cvars, dvars, xvars>>

\* ... and handed to upload, whose error ends Run.
UploadScript(ok) ==
    /\ spc = "upload"
    /\ uploads' = Append(uploads, [path |-> step.Files[fidx].Path, data |-> buf,
                                   ok |-> ok])
    /\ IF ~ok THEN spc' = "failed" /\ fidx' = fidx
       ELSE IF fidx < Len(step.Files) THEN spc' = "write" /\ fidx' = fidx + 1
       ELSE spc' = "session" /\ fidx' = fidx
    /\ UNCHANGED <<step, buf, evars, cvars, dvars, xvars>>

\* The steps handed to Run.
Secret(name, env, data) == [Name |-> name, Env |-> env, Data |-> data, Mask |-> TRUE]
ScriptSecrets ==
    {Secret("tok", "a", "b"), Secret("password", "c", "d"), Secret("key", "B", "s3cret")}
ScriptSecretLists == UNION { [1..n -> ScriptSecrets] : n \in 0..MaxSecrets }
ScriptKeys == {"B", "a", "ab", "c"}
ScriptEnvs ==
    { [k \in ks |-> CASE k = "B" -> "" [] k = "a" -> "b" [] k = "ab" -> "s3cret"
                      [] k = "c" -> "d"] : ks \in SUBSET ScriptKeys }
ScriptFiles ==
    UNION { [1..n -> {[Path |-> ScriptNames[1], Data |-> "echo hello"],
                      [Path |-> ScriptNames[2], Data |-> ""]}] :
            n \in 1..MaxStepFiles }
StepsGiven(o) ==
    { [WorkingDir |-> sourcedir(o), Secrets |-> s, Envs |-> e, Files |-> f] :
        s \in ScriptSecretLists, e \in ScriptEnvs, f \in ScriptFiles }

ScriptInit ==
    /\ os \in {"linux", "windows"} /\ files = <<>> /\ stepFiles = <<>>
    /\ EngineIdle
    /\ CompilerIdle
    /\ step \in StepsGiven(os)
    /\ buf = <<>> /\ fidx = 1 /\ spc = "write" /\ uploads = <<>>
    /\ DaemonIdle
    /\ StageIdle

ScriptNext == WriteScript \/ \E ok \in BOOLEAN : UploadScript(ok)

ScriptSpec == ScriptInit /\ [][ScriptNext]_vars

(***************************************************************************)
(* The daemon: it serves, pings the remote server until a ping succeeds,   *)
(* and polls.                                                              *)
(***************************************************************************)
\* The daemon's part of an action that leaves everything else alone.
DaemonOnly == UNCHANGED <<evars, cvars, svars, xvars>>

\* g.Go(server.ListenAndServe(ctx)), and the loop is entered.
DaemonServe ==
    /\ dpc = "serve"
    /\ server' = "serving"
    /\ dlogs' = Append(dlogs, "starting the server")
    /\ dpc' = "ping"
    /\ UNCHANGED <<ctxDone, pingErr, pings, pinged, poller, handler>>
    /\ DaemonOnly

\* A signal arrives and the handler, a goroutine of its own, prints its
\* line.
DaemonSignal ==
    /\ dpc # "off" /\ handler = "armed"
    /\ dlogs' = Append(dlogs, "received signal, terminating process")
    /\ handler' = "printed"
    /\ UNCHANGED <<dpc, ctxDone, pingErr, pings, pinged, poller, server>>
    /\ DaemonOnly

\* The signal handler calls cancel().
DaemonCancel ==
    /\ handler = "printed"
    /\ ctxDone' = TRUE
    /\ handler' = "done"
    /\ UNCHANGED <<dpc, pingErr, pings, pinged, poller, server, dlogs>>
    /\ DaemonOnly

\* err := cli.Ping(ctx, config.Runner.Name); a Ping on a cancelled context
\* returns the context's error.
DaemonPing(ok) ==
    /\ dpc = "ping" /\ pings < MaxPings
    /\ ctxDone => ~ok
    /\ pingErr' = ~ok
    /\ pings' = pings + 1
    /\ pinged' = (pinged \/ ok)
    /\ dpc' = "select"
    /\ UNCHANGED <<ctxDone, poller, server, dlogs, handler>>
    /\ DaemonOnly

\* select { case <-ctx.Done(): return nil; default: }
DaemonSelect ==
    /\ dpc = "select"
    /\ dpc' = IF ctxDone THEN "returned" ELSE "ctxerr"
    /\ UNCHANGED <<ctxDone, pingErr, pings, pinged, poller, server, dlogs,
                   handler>>
    /\ DaemonOnly

\* if ctx.Err() != nil { break }
DaemonCtxErr ==
    /\ dpc = "ctxerr"
    /\ dpc' = IF ctxDone THEN "poll" ELSE "result"
    /\ UNCHANGED <<ctxDone, pingErr, pings, pinged, poller, server, dlogs,
                   handler>>
    /\ DaemonOnly

\* if err != nil { log; time.Sleep(time.Second) } else { log; break }
DaemonResult ==
    /\ dpc = "result"
    /\ IF pingErr
       THEN /\ dlogs' = Append(dlogs, "cannot ping the remote server")
            /\ dpc' = "sleep"
       ELSE /\ dlogs' = Append(dlogs, "successfully pinged the remote server")
            /\ dpc' = "poll"
    /\ UNCHANGED <<ctxDone, pingErr, pings, pinged, poller, server, handler>>
    /\ DaemonOnly

\* time.Sleep returns and the loop goes round.
DaemonSleep ==
    /\ dpc = "sleep"
    /\ dpc' = "ping"
    /\ UNCHANGED <<ctxDone, pingErr, pings, pinged, poller, server, dlogs,
                   handler>>
    /\ DaemonOnly

\* g.Go(func() error { ...; poller.Poll(ctx, config.Runner.Capacity) }), and
\* the daemon waits in g.Wait() for the server and the poller.
DaemonPoll ==
    /\ dpc = "poll"
    /\ poller' = "polling"
    /\ dlogs' = Append(dlogs, "polling the remote server")
    /\ dpc' = "wait"
    /\ UNCHANGED <<ctxDone, pingErr, pings, pinged, server, handler>>
    /\ DaemonOnly

DaemonInit ==
    /\ os = "linux" /\ files = <<>> /\ stepFiles = <<>>
    /\ EngineIdle /\ CompilerIdle /\ ScriptIdle /\ StageIdle
    /\ dpc = "serve" /\ ctxDone = FALSE /\ pingErr = FALSE /\ pings = 0
    /\ pinged = FALSE /\ poller = "none" /\ server = "none" /\ dlogs = <<>>
    /\ handler = "armed"

DaemonNext ==
    \/ DaemonServe
    \/ DaemonSignal
    \/ DaemonCancel
    \/ \E ok \in BOOLEAN : DaemonPing(ok)
    \/ DaemonSelect
    \/ DaemonCtxErr
    \/ DaemonResult
    \/ DaemonSleep
    \/ DaemonPoll

DaemonSpec == DaemonInit /\ [][DaemonNext]_vars

(***************************************************************************)
(* The runner and the executor of one claimed stage: Engine.Setup, the     *)
(* steps of the Spec under the limit max_procs, Engine.Destroy, the final  *)
(* status.  The node of a step is pending, running or done; its result is  *)
(* success, failure, errored or skipped.                                   *)
(***************************************************************************)
Node(state, result) == [state |-> state, result |-> result]

\* The steps of a Spec as the executor sees them: the steps a step depends
\* on and its run policy.  The steps of a serial Spec form a chain, those
\* of a parallel one depend on nothing; at most one step has another policy
\* than on_success.
StagePlans ==
    { [i \in 1..n |->
          [DependsOn |-> IF serial /\ i > 1 THEN {i - 1} ELSE {},
           RunPolicy |-> IF i = k THEN pol ELSE RunOnSuccess]] :
        n \in 1..MaxSteps, serial \in BOOLEAN, k \in 1..MaxSteps,
        pol \in {RunAlways, RunOnSuccess, RunOnFailure, RunNever} }

Running == {n \in DOMAIN nodes : nodes[n].state = "running"}
Failures == {n \in DOMAIN nodes : nodes[n].result \in {"failure", "errored"}}
ParentsDone(n) == \A m \in plan[n].DependsOn : nodes[m].state = "done"

\* Whether the run policy of the step permits it to run after the outcomes
\* so far.
Permits(n) ==
    CASE plan[n].RunPolicy = RunAlways -> TRUE
      [] plan[n].RunPolicy = RunOnSuccess -> Failures = {}
      [] plan[n].RunPolicy = RunOnFailure -> Failures # {}
      [] OTHER -> FALSE

Eligible(n) == nodes[n].state = "pending" /\ ParentsDone(n) /\ Permits(n)

\* What the runner's part of an action leaves alone.
StageOnly == UNCHANGED <<evars, cvars, svars, dvars>>

\* Engine.Setup returns; the runner goes on to Destroy when it failed.
RunnerSetup(ok) ==
    /\ rpc = "setup"
    /\ setupOk' = ok
    /\ rpc' = IF ok THEN "execute" ELSE "destroy"
    /\ UNCHANGED <<plan, maxProcs, nodes, destroys, stopped>>
    /\ StageOnly

\* The stage is cancelled.
StageCancel ==
    /\ rpc \in {"setup", "execute"} /\ ~stopped
    /\ stopped' = TRUE
    /\ UNCHANGED <<rpc, plan, maxProcs, nodes, setupOk, destroys>>
    /\ StageOnly

ExecDispatchIgnoresLimit(n) ==
    /\ rpc = "execute" /\ ~stopped
    /\ Eligible(n)
    /\ nodes' = [nodes EXCEPT ![n] = Node("running", "none")]
    /\ UNCHANGED <<rpc, plan, maxProcs, setupOk, destroys, stopped>>
    /\ StageOnly

\* An eligible step is handed to Engine.Run when fewer than max_procs steps
\* are running, or when max_procs sets no limit.
ExecDispatch(n) ==
    /\ rpc = "execute" /\ ~stopped
    /\ Eligible(n)
    /\ maxProcs <= 0 \/ Cardinality(Running) < maxProcs
    /\ nodes' = [nodes EXCEPT ![n] = Node("running", "none")]
    /\ UNCHANGED <<rpc, plan, maxProcs, setupOk, destroys, stopped>>
    /\ StageOnly

\* A step whose parents are done and whose policy does not permit it is
\* done, skipped, without Engine.Run.
ExecSkip(n) ==
    /\ rpc = "execute"
    /\ nodes[n].state = "pending" /\ ParentsDone(n) /\ ~Permits(n)
    /\ nodes' = [nodes EXCEPT ![n] = Node("done", "skipped")]
    /\ UNCHANGED <<rpc, plan, maxProcs, setupOk, destroys, stopped>>
    /\ StageOnly

\* Engine.Run of a step returns.
ExecComplete(n, result) ==
    /\ rpc = "execute"
    /\ nodes[n].state = "running"
    /\ nodes' = [nodes EXCEPT ![n] = Node("done", result)]
    /\ UNCHANGED <<rpc, plan, maxProcs, setupOk, destroys, stopped>>
    /\ StageOnly

ExecuteEndForgetsDestroyWhenStopped ==
    /\ rpc = "execute"
    /\ Running = {}
    /\ stopped \/ \A n \in DOMAIN nodes : nodes[n].state = "done"
    /\ rpc' = IF stopped THEN "report" ELSE "destroy"
    /\ UNCHANGED <<plan, maxProcs, nodes, setupOk, destroys, stopped>>
    /\ StageOnly

\* Executor.execute returns: no step is running, and every step is done
\* unless the stage was cancelled.
ExecuteEnd ==
    /\ rpc = "execute"
    /\ Running = {}
    /\ stopped \/ \A n \in DOMAIN nodes : nodes[n].state = "done"
    /\ rpc' = "destroy"
    /\ UNCHANGED <<plan, maxProcs, nodes, setupOk, destroys, stopped>>
    /\ StageOnly

\* Engine.Destroy, always, even on prior error.
RunnerDestroy ==
    /\ rpc = "destroy"
    /\ destroys' = destroys + 1
    /\ rpc' = "report"
    /\ UNCHANGED <<plan, maxProcs, nodes, setupOk, stopped>>
    /\ StageOnly

\* The final status goes to the reporter.
RunnerReport ==
    /\ rpc = "report"
    /\ rpc' = "done"
    /\ UNCHANGED <<plan, maxProcs, nodes, setupOk, destroys, stopped>>
    /\ StageOnly

StageInit ==
    /\ os = "linux" /\ files = <<>> /\ stepFiles = <<>>
    /\ EngineIdle /\ CompilerIdle /\ ScriptIdle /\ DaemonIdle
    /\ rpc = "setup"
    /\ plan \in StagePlans
    /\ maxProcs \in -1..MaxProcsLimit
    /\ nodes = [n \in DOMAIN plan |-> Node("pending", "none")]
    /\ setupOk = FALSE /\ destroys = 0 /\ stopped = FALSE

StageNext ==
    \/ \E ok \in BOOLEAN : RunnerSetup(ok)
    \/ StageCancel
    \/ \E n \in DOMAIN nodes : ExecDispatch(n)
    \/ \E n \in DOMAIN nodes : ExecSkip(n)
    \/ \E n \in DOMAIN nodes, result \in {"success", "failure", "errored"} :
           ExecComplete(n, result)
    \/ ExecuteEnd
    \/ RunnerDestroy
    \/ RunnerReport

StageSpec == StageInit /\ [][StageNext]_vars

(***************************************************************************)
(* Properties of the engine.                                               *)
(***************************************************************************)
IsMkdirAll(c) == c.call = "MkdirAll"
IsDirEntry(f) == f.IsDir
Last(q) == q[Len(q)]
Did(c) == \E i \in DOMAIN remote : remote[i] = c
Failed(c) == \E i \in DOMAIN remote : remote[i].call = c /\ ~remote[i].ok

\* The directories Setup has to create, in order: the root, then the
\* directory entries of spec.Files.
WantedDirs ==
    LET dirs == SelectSeq(files, IsDirEntry)
    IN  <<File(Root, TRUE, RootMode)>> \o dirs

\* C1: in every execution of Setup the root directory is created first, the
\* directory entries of spec.Files are created in list order, and every one
\* of them is created (MkdirAll and Chmod with its mode) before the first
\* upload; no upload call precedes a directory call.
C1_SetupOrder ==
    op = "Setup" =>
        LET mk == SelectSeq(remote, IsMkdirAll)
        IN  /\ Len(mk) <= Len(WantedDirs)
            /\ \A i \in 1..Len(mk) : mk[i].path = WantedDirs[i].Path
            /\ \A i, j \in DOMAIN remote :
                   (/\ remote[i].call \in {"Create", "Write", "FileChmod"}
                    /\ remote[j].call \in {"MkdirAll", "Chmod"}) => j < i
            /\ (\E i \in DOMAIN remote : remote[i].call = "Create") =>
                   \A k \in DOMAIN WantedDirs :
                       /\ Did(Call("MkdirAll", WantedDirs[k].Path, 0, TRUE))
                       /\ Did(Call("Chmod", WantedDirs[k].Path, WantedDirs[k].Mode, TRUE))

\* A Setup that succeeded on a list holding a file entry ahead of a directory.
C1_Witness ==
    /\ op = "Setup" /\ pc = "returned" /\ ret.err = NoErr
    /\ Len(files) >= 2 /\ ~files[1].IsDir /\ files[2].IsDir
    /\ Did(Call("Create", files[1].Path, 0, TRUE))
    /\ Did(Call("MkdirAll", files[2].Path, 0, TRUE))

\* C2: when Run received the outcome of the step's command, it returns a
\* State with Exited, without OOMKilled, whose ExitCode is 0 for no error,
\* the exit status for an exit-status error and 255 for any other error,
\* and it returns the session error along with the State.
C2_CompletionState ==
    (op = "Run" /\ pc = "returned" /\ gor = "exited") =>
        /\ ret.state.present
        /\ ret.state.Exited = TRUE
        /\ ret.state.OOMKilled = FALSE
        /\ ret.err = gres
        /\ gres.kind = "nil" => ret.state.ExitCode = 0
        /\ gres.kind = "exit" => ret.state.ExitCode = gres.status
        /\ gres.kind = "other" => ret.state.ExitCode = 255

\* Run returned after a command that ended with exit status 1.
C2_Witness ==
    /\ op = "Run" /\ pc = "returned" /\ gor = "exited"
    /\ gres = ExitError(1)
    /\ ret.state.ExitCode = 1 /\ ret.err = ExitError(1)

\* C3: when the context is cancelled while Run is parked waiting for the
\* command, Run goes to signal the session; it returns with SIGKILL as its
\* last remote call, no State and the cancellation error, whether or not
\* the signal was delivered and whether or not the command has finished.
C3_CancelWhileWaiting ==
    LET \* the calls Run made itself: session.Run is the goroutine's
        own == SelectSeq(remote, LAMBDA c : c.call # "Run")
        killed == /\ ret.err = Canceled
                  /\ ~ret.state.present
                  /\ Last(own).call = "Signal" /\ Last(own).path = "SIGKILL"
    IN  /\ (op = "Run" /\ cancelAt = "wait") =>
              /\ pc \in {"signal", "returned"}
              /\ pc = "returned" => killed
        \* a Run that returned without the command's outcome was cancelled
        /\ (op = "Run" /\ pc = "returned"
                /\ gor \in {"runnable", "running", "send"}) =>
              (cancelled /\ killed)

\* Run returned on cancellation while the command was still running and the
\* signal could not be delivered.
C3_Witness ==
    /\ op = "Run" /\ cancelAt = "wait" /\ pc = "returned"
    /\ gor = "running"
    /\ Last(remote) = Call("Signal", "SIGKILL", 0, FALSE)
    /\ ret.err = Canceled

\* C4: every resource an operation has open has its close deferred, and
\* when the operation has returned nothing it opened is open any more.
C4_ResourcesReleased ==
    /\ open \subseteq Range(deferred)
    /\ pc = "returned" => open = {}

\* A cancelled Run that had opened its client, sftp client, a file and its
\* session.
C4_Witness ==
    /\ op = "Run" /\ pc = "returned" /\ ret.err = Canceled
    /\ Len(stepFiles) >= 1
    /\ Did(Call("Dial", "", 0, TRUE))
    /\ Did(Call("NewClient", "", 0, TRUE))
    /\ Did(Call("Create", stepFiles[1].Path, 0, TRUE))
    /\ Did(Call("NewSession", "", 0, TRUE))
    /\ open = {}

\* The places where an operation is blocked in remote I/O: dial, the sftp
\* operations of mkdir, upload and rmdir, and a session command.
BlockedInRemoteIO ==
    {"dial", "mkdirall", "chmod", "create", "write", "fchmod", "rmdir", "rmcmd", "wait"}

\* C5: once the context is cancelled while an operation is blocked in remote
\* I/O, the operation's next step is its return with the cancellation error;
\* it does not wait for the remote call to complete.
C5_Interruptible ==
    [][(cancelled /\ pc \in BlockedInRemoteIO /\ pc' # pc)
          => (pc' = "returned" /\ ret'.err = Canceled)]_vars

TransportFailures == {"dial", "sftp", "create", "write", "fchmod", "session", "other"}
FailuresBeforeTheCommand == TransportFailures \ {"other"}

\* The transport failures of Run: a failed dial, sftp open, upload of a step
\* file or session open, or an error without exit status that session.Run
\* returned and Run received.
RunTransportFailure ==
    \/ Failed("Dial") \/ Failed("NewClient")
    \/ Failed("Create") \/ Failed("Write") \/ Failed("FileChmod")
    \/ Failed("NewSession")
    \/ gor = "exited" /\ gres = Err("other")

\* C6: after a transport failure of Run (dial, sftp open, upload of a step
\* file, session open, or a session error that is not an exit status) Run
\* has returned that error, which is no exit status, and the step's node is
\* errored with exit code 255.
C6_TransportFailureErrors ==
    (op = "Run" /\ node.state = "done" /\ RunTransportFailure) =>
        /\ ret.err.kind \in TransportFailures
        /\ node.result = "errored"
        /\ node.exit_code = 255

\* A step whose script could not be written: Run returned no State, and the
\* node is errored with 255.
C6_Witness ==
    /\ op = "Run" /\ node.state = "done"
    /\ Failed("Write") /\ ret.err = Err("write") /\ ~ret.state.present
    /\ node.result = "errored" /\ node.exit_code = 255

\* A step whose session.Run returned an error without exit status: the State
\* of Run carries the 255.
SessionErrorIs255 ==
    /\ op = "Run" /\ node.state = "done"
    /\ gor = "exited" /\ gres = Err("other")
    /\ ret.state.present /\ ret.state.ExitCode = 255
    /\ node.result = "errored" /\ node.exit_code = 255

\* removeCommand as its test expects it.
WantedRemoveCommand ==
    IF os = "windows"
    THEN <<"powershell -noprofile -noninteractive -command \"Remove-Item", Root,
           "-Recurse -Force\"">>
    ELSE <<"rm -rf", Root>>

\* C7: Destroy's first remote call after dial and sftp open is the removal
\* of the root over sftp; a session is asked for only after that removal
\* failed, and by the time Destroy returns it has been asked for exactly when
\* the removal failed; the remove command is run exactly when that session
\* was opened, and it is removeCommand(os, root); when the removal succeeds
\* Destroy returns nil at once, without a session.
C7_DestroyFallback ==
    op = "Destroy" =>
        LET sess == \E i \in DOMAIN remote : remote[i].call = "NewSession"
            cmds == {i \in DOMAIN remote : remote[i].call = "Run"}
        IN  /\ Len(remote) >= 3 =>
                  (remote[3].call = "RemoveDirectory" /\ remote[3].path = Root)
            /\ \A i \in DOMAIN remote :
                  remote[i].call \in {"NewSession", "Run"} => (i > 3 /\ ~remote[3].ok)
            /\ \A i \in cmds :
                  /\ remote[i].cmd = WantedRemoveCommand
                  /\ remote[i-1] = Call("NewSession", "", 0, TRUE)
            /\ "session" \in open => Failed("RemoveDirectory")
            /\ pc = "returned" =>
                  /\ sess <=> Failed("RemoveDirectory")
                  /\ (cmds # {}) <=> Did(Call("NewSession", "", 0, TRUE))
                  /\ Did(Call("RemoveDirectory", Root, 0, TRUE)) =>
                        (ret.err = NoErr /\ ~sess
                         /\ Last(remote).call = "RemoveDirectory")

\* A Destroy on windows whose sftp removal failed and whose fallback ran.
C7_Witness ==
    /\ op = "Destroy" /\ pc = "returned" /\ os = "windows"
    /\ Failed("RemoveDirectory")
    /\ Did(Call("NewSession", "", 0, TRUE))
    /\ Last(remote).call = "Run" /\ Last(remote).cmd = WantedRemoveCommand
    /\ ret.err = NoErr

DestroyFailed ==
    Failed("Dial") \/ Failed("NewClient") \/ Failed("NewSession") \/ Failed("Run")

\* C8: a Destroy that returned after one of its calls failed (dial, sftp
\* open, session open, or the fallback remove command) has written a log
\* entry.
C8_DestroyFailureLogged ==
    (op = "Destroy" /\ pc = "returned" /\ DestroyFailed) => logs # <<>>

\* The error Setup returns for a failed remote call.
ErrorOf(call) ==
    CASE call = "Dial" -> Err("dial")
      [] call = "NewClient" -> Err("sftp")
      [] call = "MkdirAll" -> Err("mkdirall")
      [] call = "Chmod" -> Err("chmod")
      [] call = "Create" -> Err("create")
      [] call = "Write" -> Err("write")
      [] call = "FileChmod" -> Err("fchmod")
      [] OTHER -> Err("unexpected")

\* C9: a failed remote call of Setup is its last remote call: Setup has
\* returned that call's error and made no further call; it returns an error
\* only for a failed call; and Setup makes no removing call at all.
C9_SetupAborts ==
    op = "Setup" =>
        /\ \A i \in DOMAIN remote :
              ~remote[i].ok =>
                  /\ i = Len(remote)
                  /\ pc = "returned"
                  /\ ret.err = ErrorOf(remote[i].call)
        /\ (pc = "returned" /\ ret.err # NoErr) => ~Last(remote).ok
        /\ \A i \in DOMAIN remote :
              remote[i].call \in {"Dial", "NewClient", "MkdirAll", "Chmod", "Create",
                                  "Write", "FileChmod"}

\* A Setup that failed in the chmod of its first directory entry, with
\* another directory and a file of spec.Files still to come and the root
\* left in place.
C9_Witness ==
    /\ op = "Setup" /\ pc = "returned" /\ ret.err = Err("chmod")
    /\ phase = "dirs"
    /\ NextEntry(files, idx, TRUE) <= Len(files)
    /\ NextEntry(files, 0, FALSE) <= Len(files)
    /\ Did(Call("MkdirAll", Root, 0, TRUE))
    /\ ~Last(remote).ok /\ Last(remote).path = files[idx].Path

(***************************************************************************)
(* Properties of the compiler.                                             *)
(***************************************************************************)
\* C10: the steps of a compiled Spec have pairwise distinct names, the clone
\* step counted with the user steps.
C10_UniqueStepNames ==
    cpc = "compiled" =>
        \A i, j \in DOMAIN compiled :
            i # j => compiled[i].Name # compiled[j].Name

\* The number of steps Compile puts before the user steps, and the compiled
\* step of user step i.
CloneCount == IF pipeline.Clone.Disable = FALSE THEN 1 ELSE 0
CompiledOf(i) == compiled[i + CloneCount]
Declared(i) == pipeline.Steps[i].DependsOn
DeclaresDependsOn == \E i \in DOMAIN pipeline.Steps : Len(Declared(i)) > 0
CompiledNames == {compiled[i].Name : i \in DOMAIN compiled}

\* C11: in the Spec compiled from a pipeline lint accepted, every name in a
\* step's depends_on is the name of a step of that Spec.
C11_NoDanglingDependency ==
    cpc = "compiled" =>
        \A i \in DOMAIN compiled :
            \A k \in DOMAIN compiled[i].DependsOn :
                compiled[i].DependsOn[k] \in CompiledNames

\* C12: when no step declares depends_on, the compiled steps are the clone
\* step (when emitted) and the user steps in source order, the first of them
\* depends on nothing and every other one on exactly the step before it.
C12_SerialChain ==
    (cpc = "compiled" /\ ~DeclaresDependsOn) =>
        /\ Len(compiled) = CloneCount + Len(pipeline.Steps)
        /\ CloneCount = 1 => compiled[1].Name = "clone"
        /\ \A i \in DOMAIN pipeline.Steps : CompiledOf(i).Name = pipeline.Steps[i].Name
        /\ \A i \in DOMAIN compiled :
               compiled[i].DependsOn =
                   IF i = 1 THEN <<>> ELSE <<compiled[i-1].Name>>

C12_Witness ==
    /\ cpc = "compiled" /\ ~DeclaresDependsOn
    /\ pipeline.Clone.Disable = FALSE
    /\ Len(pipeline.Steps) = 2
    /\ compiled[3].DependsOn = <<pipeline.Steps[1].Name>>
    /\ compiled[2].DependsOn = <<"clone">>

\* C13: when some step declares depends_on, then with clone enabled every
\* user step that declared none depends on clone and every other list is the
\* declared one (the clone step depends on nothing); with clone disabled
\* every list is the declared one without its references to clone.
C13_GraphCloneDeps ==
    (cpc = "compiled" /\ DeclaresDependsOn) =>
        /\ Len(compiled) = CloneCount + Len(pipeline.Steps)
        /\ pipeline.Clone.Disable = FALSE =>
               /\ compiled[1].DependsOn = <<>>
               /\ \A i \in DOMAIN pipeline.Steps :
                      CompiledOf(i).DependsOn =
                          IF Declared(i) = <<>> THEN <<"clone">> ELSE Declared(i)
        /\ pipeline.Clone.Disable = TRUE =>
               \A i \in DOMAIN pipeline.Steps :
                   CompiledOf(i).DependsOn =
                       SelectSeq(Declared(i), LAMBDA d : d # "clone")

C13_Witness ==
    /\ cpc = "compiled" /\ DeclaresDependsOn
    /\ pipeline.Clone.Disable = TRUE
    /\ \E i, j \in DOMAIN pipeline.Steps :
           /\ Declared(i) = <<"build", "clone">> /\ compiled[i].DependsOn = <<"build">>
           /\ Declared(j) = <<>> /\ compiled[j].DependsOn = <<>>

\* C14: the run policy of a compiled user step is never when the step's
\* conditions do not match, whatever else it is configured with; otherwise
\* always if it runs always, else on_failure if it runs on failure, else
\* on_success.
C14_RunPolicy ==
    cpc = "compiled" =>
        \A i \in DOMAIN pipeline.Steps :
            LET w == pipeline.Steps[i].When
            IN  CompiledOf(i).RunPolicy =
                    IF ~w.Match THEN "never"
                    ELSE IF w.Always THEN "always"
                    ELSE IF w.OnFailure THEN "on_failure"
                    ELSE "on_success"

C14_Witness ==
    /\ cpc = "compiled"
    /\ \E i, j, k \in DOMAIN pipeline.Steps :
           /\ pipeline.Steps[i].When = When(TRUE, FALSE, FALSE)
           /\ CompiledOf(i).RunPolicy = "never"
           /\ pipeline.Steps[j].When = When(TRUE, TRUE, TRUE)
           /\ CompiledOf(j).RunPolicy = "always"
           /\ pipeline.Steps[k].When = When(FALSE, TRUE, TRUE)
           /\ CompiledOf(k).RunPolicy = "on_failure"

\* The baseline environment, key by key: the fixed entries, else the
\* variables derived from the build metadata, else the build parameters,
\* else the unmasked globals (the last of a name).
BaselineHas(e, k, v) ==
    /\ k \in DOMAIN e
    /\ e[k] = v

\* The home and the workspace directory of the platform of the pipeline.
BaselineHome ==
    IF pipeline.Platform.OS = "windows"
    THEN "%TEMP%\\drone-random\\home\\drone"
    ELSE "/tmp/drone-random/home/drone"

BaselineSource ==
    IF pipeline.Platform.OS = "windows"
    THEN "%TEMP%\\drone-random\\drone\\src"
    ELSE "/tmp/drone-random/drone/src"

Baseline(e) ==
    /\ BaselineHas(e, "HOME", BaselineHome)
    /\ BaselineHas(e, "HOMEPATH", BaselineHome)
    /\ BaselineHas(e, "USERPROFILE", BaselineHome)
    /\ BaselineHas(e, "DRONE_HOME", BaselineSource)
    /\ BaselineHas(e, "DRONE_WORKSPACE", BaselineSource)
    /\ BaselineHas(e, "GIT_TERMINAL_PROMPT", "0")
    /\ \A k \in DOMAIN args.Metadata : k \in DOMAIN e
    /\ \A k \in DOMAIN args.Params : k \in DOMAIN e
    /\ \A g \in DOMAIN providers.Globals :
           ~providers.Globals[g].Mask => providers.Globals[g].Name \in DOMAIN e
    /\ \A k \in DOMAIN e :
           \/ k \in {"HOME", "HOMEPATH", "USERPROFILE", "DRONE_HOME",
                     "DRONE_WORKSPACE", "GIT_TERMINAL_PROMPT"}
           \/ k \in DOMAIN args.Metadata /\ e[k] = args.Metadata[k]
           \/ /\ k \notin DOMAIN args.Metadata
              /\ k \in DOMAIN args.Params /\ e[k] = args.Params[k]
           \/ /\ k \notin DOMAIN args.Metadata /\ k \notin DOMAIN args.Params
              /\ \E g \in DOMAIN providers.Globals :
                     /\ providers.Globals[g] = Global(k, e[k], FALSE)
                     /\ \A h \in DOMAIN providers.Globals :
                            (h > g /\ ~providers.Globals[h].Mask)
                                => providers.Globals[h].Name # k

\* C15: with clone not disabled the first compiled step is named clone, runs
\* always and carries the baseline environment, and the user steps follow in
\* source order; with clone disabled the compiled steps are the user steps in
\* source order and nothing else.
C15_CloneStep ==
    cpc = "compiled" =>
        /\ Len(compiled) = CloneCount + Len(pipeline.Steps)
        /\ \A i \in DOMAIN pipeline.Steps : CompiledOf(i).Name = pipeline.Steps[i].Name
        /\ pipeline.Clone.Disable = FALSE =>
               /\ compiled[1].Name = "clone"
               /\ compiled[1].RunPolicy = "always"
               /\ Baseline(compiled[1].Envs)

C15_Witness ==
    /\ cpc = "compiled"
    /\ pipeline.Clone.Disable = FALSE
    /\ Len(pipeline.Steps) = 1
    /\ compiled[1].Name = "clone" /\ compiled[1].RunPolicy = "always"
    /\ providers.Globals = <<Global("CI", "true", FALSE), Global("TOKEN", "global-token", TRUE)>>
    /\ args.Params # NoEnvs
    /\ DOMAIN compiled[1].Envs =
           {"CI", "HOME", "TOKEN", "DRONE_BRANCH", "HOMEPATH", "USERPROFILE",
            "DRONE_HOME", "DRONE_WORKSPACE", "GIT_TERMINAL_PROMPT"}
    /\ compiled[1].Envs["TOKEN"] = "param"


\* The secrets a user step names in its environment.
NamedSecrets(i) ==
    {k \in DOMAIN pipeline.Steps[i].Environment :
        pipeline.Steps[i].Environment[k].Secret # ""}
SecretOf(i, k) == pipeline.Steps[i].Environment[k].Secret

\* C16: a step one of whose named secrets met an error of the secret
\* provider is not compiled into a step that proceeds with that secret
\* empty; only a secret the provider does not have is compiled so.
C16_ProviderErrorFailsStep ==
    cpc = "compiled" =>
        \A i \in DOMAIN pipeline.Steps :
            \A k \in NamedSecrets(i) :
                providers.Secrets[SecretOf(i, k)].kind = "error" =>
                    ~ \E s \in DOMAIN CompiledOf(i).Secrets :
                          /\ CompiledOf(i).Secrets[s].Env = k
                          /\ CompiledOf(i).Secrets[s].Data = ""
                          /\ CompiledOf(i).RunPolicy # "never"

\* C17: the hostname of the Spec is the resolved host (the value of the host
\* secret when one is named and found, the literal otherwise), with ":22"
\* after it when it holds no ":" and as it is when it holds one.
C17_Hostname ==
    cpc = "compiled" =>
        LET h == pipeline.Server.Host
            found == h.Secret # "" /\ providers.Secrets[h.Secret].kind = "found"
            resolved == Chars(IF found THEN providers.Secrets[h.Secret].Data
                              ELSE h.Value)
        IN  specServer.Hostname =
                IF ":" \in Range(resolved) THEN resolved
                ELSE resolved \o <<":", "22">>

C17_Witness ==
    /\ cpc = "compiled"
    /\ pipeline.Server.Host = Variable("example.com:2222", "host_secret")
    /\ providers.Secrets["host_secret"] = Found("10.0.0.1")
    /\ specServer.Hostname = <<"10.0.0.1", ":", "22">>

\* C20: every compiled step, the clone step included, carries after the
\* secrets its source step names one secret per masked global, in the order
\* of the provider's list, whose name and env-var are the global's name and
\* whose mask flag is the global's; it carries no secret for an unmasked
\* global.
C20_MaskedGlobalsAreSecrets ==
    cpc = "compiled" =>
        LET masked == SelectSeq(providers.Globals, LAMBDA g : g.Mask)
        IN  \A i \in DOMAIN compiled :
                LET own == IF i <= CloneCount THEN {}
                           ELSE NamedSecrets(i - CloneCount)
                    n == Cardinality(own)
                    secrets == compiled[i].Secrets
                IN  /\ Len(secrets) = n + Len(masked)
                    /\ \A j \in 1..n :
                           /\ secrets[j].Env \in own
                           /\ secrets[j].Name = SecretOf(i - CloneCount, secrets[j].Env)
                    /\ \A j \in DOMAIN masked :
                           /\ secrets[n + j].Name = masked[j].Name
                           /\ secrets[n + j].Env = masked[j].Name
                           /\ secrets[n + j].Mask = masked[j].Mask

C20_Witness ==
    /\ cpc = "compiled"
    /\ providers.Globals = <<Global("TOKEN", "global-token", TRUE), Global("CI", "true", FALSE)>>
    /\ Len(compiled) = 2
    /\ Len(compiled[1].Secrets) = 1 /\ compiled[1].Secrets[1].Name = "TOKEN"
    /\ Len(compiled[2].Secrets) = 2
    /\ compiled[2].Secrets[1].Name = "tok"
    /\ compiled[2].Secrets[2].Env = "TOKEN" /\ compiled[2].Secrets[2].Mask


(***************************************************************************)
(* Properties of the script Run writes.                                    *)
(***************************************************************************)
\* The lines of an uploaded script that follow the cd line and the secrets:
\* there are as many as the step has ordinary variables.
EnvLine(u, j) == u.data[1 + Len(step.Secrets) + j]
KeyOf(line) == line[2]
IsPowerShell(line) == line[1] = "$Env:"
IsPosix(line) == line[1] = "export "

\* C18: whatever order the range over the map of ordinary variables takes,
\* the lines writeEnviron puts in the script are the same: one export line
\* per key of the map, in ascending order of the keys.
C18_EnvironSorted ==
    \A i \in DOMAIN uploads :
        LET u == uploads[i]
            n == Cardinality(DOMAIN step.Envs)
        IN  /\ Len(u.data) = 1 + Len(step.Secrets) + n + 1
            /\ {KeyOf(EnvLine(u, j)) : j \in 1..n} = DOMAIN step.Envs
            /\ \A j \in 1..(n-1) : Less(KeyOf(EnvLine(u, j)), KeyOf(EnvLine(u, j + 1)))
            /\ \A j \in 1..n :
                   EnvLine(u, j) = writeEnv(os, KeyOf(EnvLine(u, j)),
                                            step.Envs[KeyOf(EnvLine(u, j))])

C18_Witness ==
    /\ Len(uploads) = 1
    /\ DOMAIN step.Envs = {"B", "a", "ab", "c"}
    /\ KeyOf(EnvLine(uploads[1], 1)) = "B"
    /\ KeyOf(EnvLine(uploads[1], 2)) = "a"
    /\ KeyOf(EnvLine(uploads[1], 3)) = "ab"
    /\ KeyOf(EnvLine(uploads[1], 4)) = "c"

\* C19: the bytes Run hands to upload for the i-th file of the step are, in
\* order: the cd line of the step's working directory, one export line per
\* secret of the step in list order under the secret's env-var name, one
\* export line per ordinary variable, and the data of the file as it is;
\* the export lines are PowerShell ones exactly when the OS is windows.
C19_ScriptLayout ==
    \A i \in DOMAIN uploads :
        LET u == uploads[i]
            s == Len(step.Secrets)
            n == Cardinality(DOMAIN step.Envs)
        IN  /\ u.path = step.Files[i].Path
            /\ Len(u.data) = 1 + s + n + 1
            /\ u.data[1] = <<"cd ", step.WorkingDir, "\n">>
            /\ \A j \in 1..s : KeyOf(u.data[1 + j]) = step.Secrets[j].Env
            /\ \A j \in 1..n : KeyOf(u.data[1 + s + j]) \in DOMAIN step.Envs
            /\ \A j \in 1..(s + n) :
                   /\ IsPowerShell(u.data[1 + j]) <=> os = "windows"
                   /\ IsPosix(u.data[1 + j]) <=> os # "windows"
            /\ u.data[1 + s + n + 1] = step.Files[i].Data

C19_Witness ==
    /\ Len(uploads) = 2 /\ os = "windows"
    /\ Len(step.Secrets) = 2 /\ step.Secrets[1].Env = "c" /\ step.Secrets[2].Env = "a"
    /\ DOMAIN step.Envs = {"B", "ab"}
    /\ KeyOf(uploads[2].data[2]) = "c" /\ KeyOf(uploads[2].data[3]) = "a"
    /\ KeyOf(uploads[2].data[4]) = "B"
    /\ uploads[2].data[6] = step.Files[2].Data

\* C21: the Spec Compile returns lists the five directories home,
\* home/drone, drone, drone/src and opt of its root first, in that order and
\* each with mode 0700; it holds a netrc entry exactly when args.Netrc is
\* set and its password is not empty, and that entry comes after the five
\* directories, is not a directory, lies in the home directory under the
\* name _netrc on windows and .netrc elsewhere, has mode 0600 and the data
\* "machine <m> login <l> password <p>".
C21_NetrcFile ==
    cpc = "compiled" =>
        LET o == pipeline.Platform.OS
            n == args.Netrc
            sep == IF o = "windows" THEN "\\" ELSE "/"
            root == (IF o = "windows" THEN "%TEMP%" ELSE "/tmp")
                        \o sep \o "drone-random"
            has == ~n.Nil /\ n.Password # ""
            name == IF o = "windows" THEN "_netrc" ELSE ".netrc"
        IN  /\ Len(specFiles) = 5 + (IF has THEN 1 ELSE 0)
            /\ \A i \in 1..5 : specFiles[i].IsDir /\ specFiles[i].Mode = 448
            /\ specFiles[1].Path = root \o sep \o "home"
            /\ specFiles[2].Path = root \o sep \o "home" \o sep \o "drone"
            /\ specFiles[3].Path = root \o sep \o "drone"
            /\ specFiles[4].Path = root \o sep \o "drone" \o sep \o "src"
            /\ specFiles[5].Path = root \o sep \o "opt"
            /\ (\E i \in DOMAIN specFiles : ~specFiles[i].IsDir) <=> has
            /\ has =>
                   /\ ~specFiles[6].IsDir /\ specFiles[6].Mode = 384
                   /\ specFiles[6].Path = specFiles[2].Path \o sep \o name
                   /\ specFiles[6].Data =
                          "machine " \o n.Machine \o " login " \o n.Login
                              \o " password " \o n.Password

\* A Spec compiled for windows from a netrc with a password.
C21_Witness ==
    /\ cpc = "compiled" /\ pipeline.Platform.OS = "windows"
    /\ ~args.Netrc.Nil /\ args.Netrc.Password = "p"
    /\ Len(specFiles) = 6
    /\ specFiles[6].Path = "%TEMP%\\drone-random\\home\\drone\\_netrc"
    /\ specFiles[6].Data = "machine git.example login u password p"

\* Whether a variable of the server has a value or names a secret.
Provided(v) == v.Value # "" \/ v.Secret # ""

\* C22: once parse ran lint on the pipeline of a resource of matching kind
\* and type, lint returned no error exactly when every step name is
\* non-empty and no two steps share a name, the server host has a value or
\* a secret, the server user has a value or a secret, and the password or
\* the ssh_key has a value or a secret; parse returned the pipeline, true,
\* and the very error lint returned.
C22_LintAccepts ==
    cpc \in {"linted", "compiled"} =>
        LET st == pipeline.Steps
            sv == pipeline.Server
        IN  /\ lintErr = "" <=>
                   /\ \A i \in DOMAIN st : st[i].Name # ""
                   /\ \A i, j \in DOMAIN st : i # j => st[i].Name # st[j].Name
                   /\ Provided(sv.Host)
                   /\ Provided(sv.User)
                   /\ Provided(sv.Password) \/ Provided(sv.SSHKey)
            /\ resource.Kind = "pipeline" /\ resource.Type = "ssh"
            /\ parsed = [out |-> TRUE, ok |-> TRUE, err |-> lintErr]

\* parse returned lint's error for a server that has host and user, but
\* neither password nor ssh_key.
C22_Witness ==
    /\ cpc = "linted" /\ match(resource)
    /\ Provided(pipeline.Server.Host) /\ Provided(pipeline.Server.User)
    /\ ~Provided(pipeline.Server.Password) /\ ~Provided(pipeline.Server.SSHKey)
    /\ \A i \in DOMAIN pipeline.Steps : pipeline.Steps[i].Name = "build"
    /\ Len(pipeline.Steps) = 1
    /\ parsed.ok /\ parsed.err = "Linter: invalid or missing server password or ssh_key"

\* The calls Run makes before it starts the command.
CallsBeforeTheCommand ==
    {"Dial", "NewClient", "Create", "Write", "FileChmod", "NewSession"}

\* C26: when Run has started the command of the step, every file of the
\* step was created, written and chmod-ed with success and a session was
\* opened with success, all before the command; when the dial, the sftp
\* open, an upload or the session open failed, Run starts no command and
\* returns that call's error with no State.
C26_CommandAfterUploads ==
    op = "Run" =>
        \* the goroutine that calls session.Run exists only after the uploads
        \* and the session
        /\ gor # "none" =>
               /\ \A k \in DOMAIN stepFiles :
                      \E a, b, c \in DOMAIN remote :
                          /\ a < b /\ b < c
                          /\ remote[a] = Call("Create", stepFiles[k].Path, 0, TRUE)
                          /\ remote[b] = Call("Write", stepFiles[k].Path, 0, TRUE)
                          /\ remote[c] = Call("FileChmod", stepFiles[k].Path,
                                              stepFiles[k].Mode, TRUE)
               /\ Did(Call("NewSession", "", 0, TRUE))
               /\ \A j \in DOMAIN remote :
                      remote[j].call \in CallsBeforeTheCommand => remote[j].ok
        \* session.Run is called by that goroutine only, after all of them
        /\ \A i \in DOMAIN remote :
               remote[i].call = "Run" =>
                   /\ gor \in {"send", "exited"}
                   /\ \A j \in DOMAIN remote :
                          remote[j].call \in CallsBeforeTheCommand => j < i
        /\ \A j \in DOMAIN remote :
               (remote[j].call \in CallsBeforeTheCommand /\ ~remote[j].ok) =>
                   /\ j = Len(remote)
                   /\ \A i \in DOMAIN remote : remote[i].call # "Run"
                   /\ gor = "none"
                   /\ pc = "returned" /\ ~ret.state.present
                   /\ ret.err.kind \in FailuresBeforeTheCommand

\* The command of a step runs after Run uploaded two files and opened a
\* session.
C26_Witness ==
    /\ op = "Run" /\ Len(stepFiles) = 2 /\ gor = "running"
    /\ Len(remote) = 9
    /\ remote[9] = Call("NewSession", "", 0, TRUE)
    /\ remote[8] = Call("FileChmod", stepFiles[2].Path, stepFiles[2].Mode, TRUE)

\* C27: when session.Run had returned by the time the context was
\* cancelled, Run does not take the cancellation branch: it sends no signal
\* and returns the State of the finished command with the session's error,
\* not ctx.Err().
C27_FinishedStepNotCancelled ==
    (op = "Run" /\ cancelled /\ finishedFirst) =>
        /\ pc # "signal"
        /\ \A i \in DOMAIN remote : remote[i].call # "Signal"
        /\ pc = "returned" => (ret.state.present /\ ret.err = gres)

\* C28: once Run has returned, the goroutine it started around session.Run
\* is not left at its send on done, where nothing receives any more.
C28_GoroutineEnds ==
    (op = "Run" /\ pc = "returned") => gor # "send"

\* C29: the script of a compiled step writes the step's secrets before its
\* ordinary variables, so a variable the step binds to a secret keeps the
\* secret's value only if the step's ordinary variables (Envs: the
\* baseline, the build parameters, the fixed entries) hold no variable of
\* that name, whose export line would come later and win.
C29_SecretEnvNotOverridden ==
    cpc = "compiled" =>
        \A i \in DOMAIN pipeline.Steps :
            \A k \in NamedSecrets(i) :
                /\ \E s \in DOMAIN CompiledOf(i).Secrets :
                       CompiledOf(i).Secrets[s].Env = k
                /\ k \notin DOMAIN CompiledOf(i).Envs

\* C30: the secret a compiled step carries for a masked global holds the
\* data of the global, as the environment provider gave it.
C30_MaskedGlobalKeepsData ==
    cpc = "compiled" =>
        LET masked == SelectSeq(providers.Globals, LAMBDA g : g.Mask)
        IN  \A i \in DOMAIN compiled :
                LET n == Len(compiled[i].Secrets) - Len(masked)
                IN  \A j \in DOMAIN masked :
                        /\ compiled[i].Secrets[n + j].Name = masked[j].Name
                        /\ compiled[i].Secrets[n + j].Data = masked[j].Data

\* C25: poller.Poll is started only after some Ping returned without
\* error; a daemon whose context is cancelled before any Ping succeeded
\* returns without starting the poller.
C25_PollAfterPing ==
    poller # "none" => pinged

\* C23: the runner calls Engine.Destroy once and never twice for a stage
\* whose Setup succeeded, after Executor.execute has returned and before the
\* stage is over, whatever the steps did and whether or not the stage was
\* cancelled.
C23_DestroyOnce ==
    /\ destroys <= 1
    /\ (rpc = "done" /\ setupOk) => destroys = 1
    /\ (destroys = 1 /\ setupOk) => (rpc \in {"report", "done"} /\ Running = {})
    /\ rpc \in {"setup", "execute", "destroy"} => destroys = 0

\* A cancelled stage with an errored step is over and was destroyed once.
C23_Witness ==
    /\ rpc = "done" /\ setupOk /\ stopped /\ destroys = 1
    /\ \E n \in DOMAIN nodes : nodes[n].result = "errored"
    /\ \E n \in DOMAIN nodes : nodes[n].state = "pending"

\* C24: with max_procs > 0 the executor never has more than max_procs steps
\* running; with max_procs <= 0 every eligible step can be dispatched,
\* however many steps are running.
C24_MaxProcs ==
    rpc = "execute" =>
        /\ maxProcs > 0 => Cardinality(Running) <= maxProcs
        /\ (maxProcs <= 0 /\ ~stopped) =>
               \A n \in DOMAIN nodes : Eligible(n) => ENABLED ExecDispatch(n)

\* Two steps run under max_procs = 2 while a third, eligible, waits.
C24_Witness ==
    /\ rpc = "execute" /\ Len(nodes) = 3
    /\ maxProcs = 2 /\ Cardinality(Running) = 2
    /\ \E n \in DOMAIN nodes : Eligible(n)

\* Every step of a stage runs at once where max_procs sets no limit.
AllRunningUnlimited ==
    /\ rpc = "execute" /\ Len(nodes) = MaxSteps
    /\ maxProcs <= 0 /\ Cardinality(Running) = MaxSteps

====
